---- MODULE Spec2Model ----
(***************************************************************************)
(* A model of the billing service's credit ledger: the POST                *)
(* /v1/credits/deduct handler (row-locked transaction, synchronous reload, *)
(* debit, fire-and-forget provider record, threshold-triggered background  *)
(* reload) and the checkout-completed webhook, over one billing_accounts   *)
(* row.  Every await of the handlers is one step; a row lock taken by      *)
(* SELECT ... FOR UPDATE blocks every other writer of the row until the    *)
(* transaction ends, and a transaction's writes become visible at commit.  *)
(***************************************************************************)
EXTENDS Integers, FiniteSets, Sequences, Bags, TLC

\* ------------------------------------------------------------------ bounds
NReq == 2
MaxBalance == 2
MaxAmount == 2
NMode == 2
NGet == 2
NCheckout == 2
NCall == 2
MaxResolves == 3
MaxDeliveries == 2
MaxRequests == 3

\* ------------------------------------------------------- program constants
DefaultThreshold == 200
ThresholdColumnDefault == 200
TrialCreditCents == 200
TrialGrantCents == 200
CheckoutCreditCents == 200
NULL == -999

NoId == "none"
Reqs == 1..NReq
Amounts == 1..MaxAmount
\* Stored balances: the small ones, and one just above the default threshold.
Balances == (0..MaxBalance) \cup {DefaultThreshold + 1}
ReloadAmounts == {1, 3}
Thresholds == {NULL, 1}
Modes == {"trial", "byok", "payg"}
CustomerIds == {NoId, "cus_1"}
PaymentMethodIds == {NoId, "pm_1"}

ModeReqs == 1..NMode
Gets == 1..NGet
Checkouts == 1..NCheckout
Calls == 1..NCall
Selectors == {"app:a1", "app:a2"}

VARIABLES
  acct,            \* the committed billing_accounts row
  acct0,           \* the row as it was before any request
  lock,            \* the request holding the row lock (0: none)
  pc,              \* each deduct request's position in the handler
  amount_cents,    \* each request's parsed amount
  account,         \* each request's row as read by SELECT ... FOR UPDATE
  currentBalance,  \* each request's local currentBalance
  txBalance,       \* each transaction's uncommitted creditBalanceCents write
  txAborted,       \* a statement of the transaction failed
  syncReload,      \* the outcome of each step of a request's synchronous reload
  result,          \* the transaction callback's return value
  resp,            \* the HTTP response sent
  chargeCalls,     \* chargePaymentMethod calls made by each handler
  creditCalls,     \* awaited createBalanceTransaction calls made by each handler
  audit,           \* each request's fire-and-forget +amount provider record
  bg,              \* each request's background reload task
  charges,         \* successful off-session charges at the provider
  stripeTxns,      \* provider balance transactions created (a bag of amounts)
  hook,            \* the checkout-completed webhook delivery
  modeReq,         \* each PATCH /v1/accounts/mode request
  getReq,          \* each GET /v1/accounts request
  coReq,           \* each POST /v1/checkout-sessions request
  customers,       \* provider customers created
  sessions,        \* provider checkout sessions created
  stripeInstances, \* the gateway's handle cache: selector -> handle (0: none)
  keysResolved,    \* credentials the key resolver has returned so far
  gw,              \* each gateway call running withAuthRetry
  event,           \* the checkout-completed event that is delivered repeatedly
  deliveries,      \* checkout-completed deliveries started and acknowledged
  wh,              \* a request to the webhook route other than a verified
                   \* checkout-completed event
  balReq,          \* a GET /v1/accounts/balance request
  txnReq,          \* a GET /v1/accounts/transactions request
  http             \* a request to a protected route, at the middleware

reqVars == <<pc, amount_cents, account, currentBalance, txBalance, txAborted,
             syncReload, result, resp, chargeCalls, creditCalls>>
taskVars == <<audit, bg>>
providerVars == <<customers, sessions>>
stripeVars == <<charges, stripeTxns, providerVars>>
apiVars == <<modeReq, getReq, coReq>>
gateVars == <<stripeInstances, keysResolved, gw>>
deliveryVars == <<event, deliveries>>
edgeVars == <<wh, balReq, txnReq, http>>
vars == <<acct, acct0, lock, reqVars, taskVars, stripeVars, hook, apiVars, gateVars,
          deliveryVars, edgeVars>>

\* ---------------------------------------------------------------- helpers

\* JavaScript truthiness of a nullable integer column.
TruthyInt(x) == x # NULL /\ x # 0

\* JavaScript truthiness of a nullable text column.
TruthyId(x) == x # NoId

NoRow == [exists |-> FALSE, id |-> NoId, stripeCustomerId |-> NoId, billingMode |-> "trial",
          creditBalanceCents |-> 0, reloadAmountCents |-> NULL,
          reloadThresholdCents |-> NULL, stripePaymentMethodId |-> NoId]

Rows == [exists : {TRUE}, id : {"acc_0"}, stripeCustomerId : CustomerIds, billingMode : Modes,
         creditBalanceCents : Balances, reloadAmountCents : {NULL} \cup ReloadAmounts,
         reloadThresholdCents : Thresholds, stripePaymentMethodId : PaymentMethodIds]

NoResp == [status |-> 0, success |-> FALSE, balance_cents |-> NULL,
           billing_mode |-> "none", depleted |-> FALSE]

ErrorResp(code) == [status |-> code, success |-> FALSE, balance_cents |-> NULL,
                    billing_mode |-> "none", depleted |-> FALSE]

ByokResult == [status |-> 200, success |-> TRUE, balance_cents |-> NULL,
               billing_mode |-> "byok", depleted |-> FALSE]

DepletedResult(balance, mode) ==
  [status |-> 200, success |-> FALSE, balance_cents |-> balance,
   billing_mode |-> mode, depleted |-> TRUE]

SuccessResult(balance, mode) ==
  [status |-> 200, success |-> TRUE, balance_cents |-> balance,
   billing_mode |-> mode, depleted |-> FALSE]

\* Mutant: the reload guard without the payment-method check.
ReloadConfiguredWithoutPaymentMethod(a) ==
  /\ a.billingMode = "payg"
  /\ TruthyId(a.stripeCustomerId)
  /\ TruthyInt(a.reloadAmountCents)

\* The condition guarding both reloads: payg with payment method, customer
\* and reload amount.
ReloadConfigured(a) ==
  /\ a.billingMode = "payg"
  /\ TruthyId(a.stripePaymentMethodId)
  /\ TruthyId(a.stripeCustomerId)
  /\ TruthyInt(a.reloadAmountCents)

\* account.reload_threshold_cents ?? 200
Threshold(a) ==
  IF a.reloadThresholdCents = NULL THEN DefaultThreshold ELSE a.reloadThresholdCents

\* Mutant: a balance equal to the threshold also triggers the reload.
ShouldBackgroundReloadAtThreshold(a, newBalance) ==
  newBalance <= Threshold(a) /\ ReloadConfigured(a)

\* The threshold check after the debit.
ShouldBackgroundReload(a, newBalance) ==
  newBalance < Threshold(a) /\ ReloadConfigured(a)

NoReload == [charge |-> "none", credit |-> "none", update |-> "none"]

NoHook == [pc |-> "idle", customer |-> NoId, payment_method |-> NoId,
           metadata |-> NULL, account |-> NoRow, reloadAmountCents |-> NULL,
           updated |-> FALSE, status |-> 0]

\* The webhook delivery once its handler has returned and its locals are gone.
HookDone(code, updated) == [NoHook EXCEPT !.pc = "done", !.updated = updated,
                                          !.status = code]

NoModeReq == [pc |-> "idle", mode |-> "none", reload_amount_cents |-> NULL,
              status |-> 0]

\* A mode request once its handler has answered.
ModeDone(code, mode, reload) ==
  [pc |-> "done", mode |-> mode, reload_amount_cents |-> reload, status |-> code]

\* No event is singled out: each delivery carries an event of its own.
NoEvent == [customer |-> NoId, payment_method |-> NoId, metadata |-> NULL,
            fixed |-> FALSE]

\* The checkout-completed events a delivery can carry.
Events == [customer : CustomerIds, payment_method : PaymentMethodIds,
           metadata : {NULL} \cup ReloadAmounts, fixed : {TRUE}]

NoDeliveries == [started |-> 0, acked |-> 0]

NoWebhook == [pc |-> "idle", signature |-> "none", type |-> "none",
              metadata_type |-> "none", customer |-> NoId, payment_method |-> NoId,
              status |-> 0]

NoRead == [pc |-> "idle", status |-> 0, balance_cents |-> NULL,
           billing_mode |-> "none", depleted |-> FALSE]

NoTxnRead == [pc |-> "idle", status |-> 0, customer |-> NoId, listed |-> 0]

NoHttp == [pc |-> "idle", api_key |-> "none", route |-> "none", org_id |-> FALSE,
           app_id |-> FALSE, status |-> 0]

NoCall == [pc |-> "idle", selector |-> "none", handle |-> 0, invocations |-> 0,
           first |-> "none", second |-> "none", outcome |-> "none",
           key |-> 0, evictedAt |-> 0]

NoGet == [pc |-> "idle", customer |-> NoId, status |-> 0, id |-> NoId]

\* An account request once its handler has answered with the account's id.
GetDone(code, id) == [NoGet EXCEPT !.pc = "done", !.status = code, !.id = id]

NoCheckout == [pc |-> "idle", customer |-> NoId, reload_amount_cents |-> NULL,
               status |-> 0]

\* A checkout request once its handler has answered.
CheckoutDone(code) == [NoCheckout EXCEPT !.pc = "done", !.status = code]

\* Mutant: the provider records the magnitude of every amount.
AddTxnUnsigned(bag, customer, amount) ==
  bag (+) SetToBag({[customer |-> customer,
                     amount |-> IF amount < 0 THEN -amount ELSE amount]})

\* A provider balance transaction for a customer is recorded.
AddTxn(bag, customer, amount) ==
  bag (+) SetToBag({[customer |-> customer, amount |-> amount]})

\* ------------------------------------------------------------------- Init
\* Everything but the event to deliver.
InitState ==
  /\ acct \in Rows \cup {NoRow}
  /\ acct0 = acct
  /\ lock = 0
  /\ pc = [r \in Reqs |-> "idle"]
  /\ amount_cents = [r \in Reqs |-> 0]
  /\ account = [r \in Reqs |-> NoRow]
  /\ currentBalance = [r \in Reqs |-> 0]
  /\ txBalance = [r \in Reqs |-> NULL]
  /\ txAborted = [r \in Reqs |-> FALSE]
  /\ syncReload = [r \in Reqs |-> NoReload]
  /\ result = [r \in Reqs |-> NoResp]
  /\ resp = [r \in Reqs |-> NoResp]
  /\ chargeCalls = [r \in Reqs |-> 0]
  /\ creditCalls = [r \in Reqs |-> 0]
  /\ audit = [r \in Reqs |-> "none"]
  /\ bg = [r \in Reqs |-> "none"]
  /\ charges = 0
  /\ stripeTxns = EmptyBag
  /\ hook = NoHook
  /\ modeReq = [m \in ModeReqs |-> NoModeReq]
  /\ getReq = [g \in Gets |-> NoGet]
  /\ coReq = [c \in Checkouts |-> NoCheckout]
  /\ customers = {}
  /\ sessions = {}
  /\ stripeInstances = [k \in Selectors |-> 0]
  /\ keysResolved = 0
  /\ gw = [c \in Calls |-> NoCall]
  /\ deliveries = NoDeliveries
  /\ wh = NoWebhook
  /\ balReq = NoRead
  /\ txnReq = NoTxnRead
  /\ http = NoHttp

Init == InitState /\ event = NoEvent

\* --------------------------------------------- POST /v1/credits/deduct

\* Mutant: the balance endpoint's depletion predicate used for sufficiency.
InsufficientWhenEmpty(balance, amount) == balance <= 0

\* if (currentBalance < amount_cents)
Insufficient(balance, amount) == balance < amount

\* Mutant: the operands of the debit swapped.
NewBalanceSwapped(balance, amount) == amount - balance

\* const newBalance = currentBalance - amount_cents
NewBalance(balance, amount) == balance - amount

\* Mutant: the row is read without FOR UPDATE, so no statement waits.
RowNeverLocked == TRUE

\* The row lock of SELECT ... FOR UPDATE: a statement on the row waits while
\* another transaction holds it.
RowLockFree == lock = 0

\* Mutant: the end of a transaction leaves its row lock in place.
StillHeld(r) == lock

\* The lock after request r's transaction has ended.
Released(r) == IF lock = r THEN 0 ELSE lock

\* The request arrives with a body DeductRequestSchema accepts.
DeductRequest(r) ==
  /\ pc[r] = "idle"
  /\ \E a \in Amounts : amount_cents' = [amount_cents EXCEPT ![r] = a]
  /\ pc' = [pc EXCEPT ![r] = "select"]
  /\ UNCHANGED <<acct, acct0, lock, account, currentBalance, txBalance, txAborted,
                 syncReload, result, resp, chargeCalls, creditCalls,
                 taskVars, stripeVars, hook, apiVars,
                 gateVars, deliveryVars, edgeVars>>

\* Mutant: the BYOK return is missing, so a byok row is metered like any other.
AfterSelectWithoutByok(a, amount) ==
  IF ~a.exists THEN "commit"
  ELSE IF Insufficient(a.creditBalanceCents, amount)
       THEN IF ReloadConfigured(a) THEN "syncCharge" ELSE "commit"
       ELSE "debit"

\* Where the handler goes after reading the row under the lock: the not-found,
\* BYOK and depleted returns, the synchronous reload, or the debit.
AfterSelect(a, amount) ==
  IF ~a.exists THEN "commit"
  ELSE IF a.billingMode = "byok" THEN "commit"
  ELSE IF Insufficient(a.creditBalanceCents, amount)
       THEN IF ReloadConfigured(a) THEN "syncCharge" ELSE "commit"
       ELSE "debit"

\* Mutant: a missing row is answered like an empty trial account.
ResultAfterSelectMissingAsEmpty(a, amount) ==
  IF ~a.exists THEN DepletedResult(0, "trial")
  ELSE IF a.billingMode = "byok" THEN ByokResult
  ELSE IF Insufficient(a.creditBalanceCents, amount) /\ ~ReloadConfigured(a)
       THEN DepletedResult(a.creditBalanceCents, a.billingMode)
       ELSE NoResp

\* What the callback has decided to return right after the read, if anything.
ResultAfterSelect(a, amount) ==
  IF ~a.exists THEN ErrorResp(404)
  ELSE IF a.billingMode = "byok" THEN ByokResult
  ELSE IF Insufficient(a.creditBalanceCents, amount) /\ ~ReloadConfigured(a)
       THEN DepletedResult(a.creditBalanceCents, a.billingMode)
       ELSE NoResp

\* SELECT * FROM billing_accounts ... FOR UPDATE, and the branches up to the
\* next await.
DeductSelectForUpdate(r) ==
  /\ pc[r] = "select"
  /\ RowLockFree
  /\ lock' = IF acct.exists THEN r ELSE lock
  /\ account' = [account EXCEPT ![r] = acct]
  /\ currentBalance' = [currentBalance EXCEPT ![r] = acct.creditBalanceCents]
  /\ result' = [result EXCEPT ![r] = ResultAfterSelect(acct, amount_cents[r])]
  /\ pc' = [pc EXCEPT ![r] = AfterSelect(acct, amount_cents[r])]
  /\ UNCHANGED <<acct, acct0, amount_cents, txBalance, txAborted, syncReload, resp,
                 chargeCalls, creditCalls, taskVars, stripeVars, hook, apiVars,
                 gateVars, deliveryVars, edgeVars>>

\* The catch block of the synchronous reload: return depleted with the local
\* currentBalance as it stands.
ReloadCaught(r, balance) ==
  /\ result' = [result EXCEPT ![r] = DepletedResult(balance, account[r].billingMode)]
  /\ pc' = [pc EXCEPT ![r] = "commit"]

\* Mutant: chargePaymentMethod is not awaited, so its rejection is not caught
\* and the reload goes on to the provider credit.
DeductSyncChargeNotAwaited(r) ==
  /\ pc[r] = "syncCharge"
  /\ chargeCalls' = [chargeCalls EXCEPT ![r] = @ + 1]
  /\ \/ /\ charges' = charges + 1
        /\ syncReload' = [syncReload EXCEPT ![r].charge = "ok"]
     \/ /\ syncReload' = [syncReload EXCEPT ![r].charge = "failed"]
        /\ UNCHANGED charges
  /\ pc' = [pc EXCEPT ![r] = "syncCredit"]
  /\ UNCHANGED <<acct, acct0, lock, amount_cents, account, currentBalance, txBalance,
                 txAborted, result, resp, creditCalls, taskVars, stripeTxns, providerVars, hook, apiVars,
                 gateVars, deliveryVars, edgeVars>>

\* await chargePaymentMethod(...) of the synchronous reload.
DeductSyncCharge(r) ==
  /\ pc[r] = "syncCharge"
  /\ chargeCalls' = [chargeCalls EXCEPT ![r] = @ + 1]
  /\ \/ /\ charges' = charges + 1
        /\ syncReload' = [syncReload EXCEPT ![r].charge = "ok"]
        /\ pc' = [pc EXCEPT ![r] = "syncCredit"]
        /\ UNCHANGED result
     \/ /\ syncReload' = [syncReload EXCEPT ![r].charge = "failed"]
        /\ ReloadCaught(r, currentBalance[r])
        /\ UNCHANGED charges
  /\ UNCHANGED <<acct, acct0, lock, amount_cents, account, currentBalance, txBalance,
                 txAborted, resp, creditCalls, taskVars, stripeTxns, providerVars, hook, apiVars,
                 gateVars, deliveryVars, edgeVars>>

\* await createBalanceTransaction(..., -reload_amount_cents, ...) of the
\* synchronous reload.
DeductSyncCredit(r) ==
  /\ pc[r] = "syncCredit"
  /\ creditCalls' = [creditCalls EXCEPT ![r] = @ + 1]
  /\ \/ /\ stripeTxns' = AddTxn(stripeTxns, account[r].stripeCustomerId, -account[r].reloadAmountCents)
        /\ syncReload' = [syncReload EXCEPT ![r].credit = "ok"]
        /\ pc' = [pc EXCEPT ![r] = "syncUpdate"]
        /\ UNCHANGED result
     \/ /\ syncReload' = [syncReload EXCEPT ![r].credit = "failed"]
        /\ ReloadCaught(r, currentBalance[r])
        /\ UNCHANGED stripeTxns
  /\ UNCHANGED <<acct, acct0, lock, amount_cents, account, currentBalance, txBalance,
                 txAborted, resp, chargeCalls, taskVars, charges, providerVars, hook, apiVars,
                 gateVars, deliveryVars, edgeVars>>

\* Mutant: the reload amount replaces the balance instead of being added.
ReloadedBalanceOverwrites(balance, reload) == reload

\* currentBalance += account.reload_amount_cents
ReloadedBalance(balance, reload) == balance + reload

\* currentBalance += reload; await tx.update(...) succeeds; then the re-check
\* "still insufficient after potential reload".
DeductSyncUpdate(r) ==
  LET reloaded == ReloadedBalance(currentBalance[r], account[r].reloadAmountCents) IN
  /\ pc[r] = "syncUpdate"
  /\ currentBalance' = [currentBalance EXCEPT ![r] = reloaded]
  /\ txBalance' = [txBalance EXCEPT ![r] = reloaded]
  /\ syncReload' = [syncReload EXCEPT ![r].update = "ok"]
  /\ IF Insufficient(reloaded, amount_cents[r])
     THEN /\ result' = [result EXCEPT ![r] =
                          DepletedResult(reloaded, account[r].billingMode)]
          /\ pc' = [pc EXCEPT ![r] = "commit"]
     ELSE /\ pc' = [pc EXCEPT ![r] = "debit"]
          /\ UNCHANGED result
  /\ UNCHANGED <<acct, acct0, lock, amount_cents, account, txAborted, resp,
                 chargeCalls, creditCalls, taskVars, stripeVars, hook, apiVars,
                 gateVars, deliveryVars, edgeVars>>

\* currentBalance += reload; await tx.update(...) throws inside the try: the
\* catch block returns depleted, and the transaction is left aborted.
DeductSyncUpdateFail(r) ==
  LET reloaded == ReloadedBalance(currentBalance[r], account[r].reloadAmountCents) IN
  /\ pc[r] = "syncUpdate"
  /\ currentBalance' = [currentBalance EXCEPT ![r] = reloaded]
  /\ txAborted' = [txAborted EXCEPT ![r] = TRUE]
  /\ syncReload' = [syncReload EXCEPT ![r].update = "failed"]
  /\ ReloadCaught(r, reloaded)
  /\ UNCHANGED <<acct, acct0, lock, amount_cents, account, txBalance, resp,
                 chargeCalls, creditCalls, taskVars, stripeVars, hook, apiVars,
                 gateVars, deliveryVars, edgeVars>>

\* The debit: await tx.update(creditBalanceCents: newBalance), then, with no
\* await in between, the fire-and-forget provider record, the threshold check
\* that starts the background reload, and the callback's return value.
DeductDebit(r) ==
  LET newBalance == NewBalance(currentBalance[r], amount_cents[r]) IN
  /\ pc[r] = "debit"
  /\ txBalance' = [txBalance EXCEPT ![r] = newBalance]
  /\ audit' = [audit EXCEPT ![r] =
                 IF TruthyId(account[r].stripeCustomerId) THEN "pending" ELSE "none"]
  /\ bg' = [bg EXCEPT ![r] =
              IF ShouldBackgroundReload(account[r], newBalance) THEN "charge" ELSE "none"]
  /\ result' = [result EXCEPT ![r] = SuccessResult(newBalance, account[r].billingMode)]
  /\ pc' = [pc EXCEPT ![r] = "commit"]
  /\ UNCHANGED <<acct, acct0, lock, amount_cents, account, currentBalance, txAborted,
                 syncReload, resp, chargeCalls, creditCalls, stripeVars, hook, apiVars,
                 gateVars, deliveryVars, edgeVars>>

\* The debit's tx.update throws: the callback rejects, the transaction rolls
\* back and the outer catch answers 500.
DeductDebitFail(r) ==
  /\ pc[r] = "debit"
  /\ txBalance' = [txBalance EXCEPT ![r] = NULL]
  /\ txAborted' = [txAborted EXCEPT ![r] = TRUE]
  /\ lock' = Released(r)
  /\ resp' = [resp EXCEPT ![r] = ErrorResp(500)]
  /\ pc' = [pc EXCEPT ![r] = "done"]
  /\ UNCHANGED <<acct, acct0, amount_cents, account, currentBalance, syncReload,
                 result, chargeCalls, creditCalls, taskVars, stripeVars, hook, apiVars,
                 gateVars, deliveryVars, edgeVars>>

\* The row a transaction leaves at its end: its last creditBalanceCents write if
\* it commits, the row as it was if it wrote nothing or rolls back.
CommittedRow(row, written, aborted) ==
  IF aborted \/ written = NULL THEN row
  ELSE [row EXCEPT !.creditBalanceCents = written]

\* The callback has returned: COMMIT (a ROLLBACK when a statement failed),
\* release of the row lock, and the response.
DeductCommit(r) ==
  /\ pc[r] = "commit"
  /\ acct' = CommittedRow(acct, txBalance[r], txAborted[r])
  /\ lock' = Released(r)
  /\ resp' = [resp EXCEPT ![r] = result[r]]
  /\ pc' = [pc EXCEPT ![r] = "done"]
  /\ UNCHANGED <<acct0, amount_cents, account, currentBalance, txBalance, txAborted,
                 syncReload, result, chargeCalls, creditCalls, taskVars, stripeVars, hook, apiVars,
                 gateVars, deliveryVars, edgeVars>>

\* The COMMIT of a transaction whose statement failed throws (the connection
\* is gone): the outer catch answers 500.
DeductCommitFail(r) ==
  /\ pc[r] = "commit"
  /\ txAborted[r]
  /\ lock' = Released(r)
  /\ resp' = [resp EXCEPT ![r] = ErrorResp(500)]
  /\ pc' = [pc EXCEPT ![r] = "done"]
  /\ UNCHANGED <<acct, acct0, amount_cents, account, currentBalance, txBalance,
                 txAborted, syncReload, result, chargeCalls, creditCalls, taskVars,
                 stripeVars, hook, apiVars,
                 gateVars, deliveryVars, edgeVars>>

\* ------------------- fire-and-forget provider record of the deduction

\* Mutant: the record is awaited inside the transaction callback, so its
\* failure while the handler is running fails the deduction.
AuditRecordAwaited(r) ==
  /\ audit[r] = "pending"
  /\ \/ /\ stripeTxns' = AddTxn(stripeTxns, account[r].stripeCustomerId, amount_cents[r])
        /\ audit' = [audit EXCEPT ![r] = "recorded"]
        /\ UNCHANGED <<result, txAborted, deliveryVars, edgeVars>>
     \/ /\ audit' = [audit EXCEPT ![r] = "failed"]
        /\ result' = [result EXCEPT ![r] = IF pc[r] = "commit" THEN ErrorResp(500) ELSE @]
        /\ txAborted' = [txAborted EXCEPT ![r] = (pc[r] = "commit") \/ @]
        /\ UNCHANGED stripeTxns
  /\ UNCHANGED <<acct, acct0, lock, pc, amount_cents, account, currentBalance, txBalance,
                 syncReload, resp, chargeCalls, creditCalls, bg, charges, providerVars,
                 hook, apiVars, gateVars, deliveryVars, edgeVars>>

\* createBalanceTransaction(..., +amount_cents, ...).catch(log)
AuditRecord(r) ==
  /\ audit[r] = "pending"
  /\ \/ /\ stripeTxns' = AddTxn(stripeTxns, account[r].stripeCustomerId, amount_cents[r])
        /\ audit' = [audit EXCEPT ![r] = "recorded"]
     \/ /\ audit' = [audit EXCEPT ![r] = "failed"]
        /\ UNCHANGED stripeTxns
  /\ UNCHANGED <<acct, acct0, lock, reqVars, bg, charges, providerVars, hook, apiVars,
                 gateVars, deliveryVars, edgeVars>>

\* ------------------------------------------- background (async) reload

\* await chargePaymentMethod(...) of the background reload.
BgCharge(r) ==
  /\ bg[r] = "charge"
  /\ \/ /\ charges' = charges + 1
        /\ bg' = [bg EXCEPT ![r] = "credit"]
     \/ /\ bg' = [bg EXCEPT ![r] = "failed"]
        /\ UNCHANGED charges
  /\ UNCHANGED <<acct, acct0, lock, reqVars, audit, stripeTxns, providerVars, hook, apiVars,
                 gateVars, deliveryVars, edgeVars>>

\* Mutant: the provider credit has a catch of its own, so the increment runs
\* whether or not the credit was recorded.
BgCreditFailureIgnored(r) ==
  /\ bg[r] = "credit"
  /\ \/ stripeTxns' = AddTxn(stripeTxns, account[r].stripeCustomerId, -account[r].reloadAmountCents)
     \/ UNCHANGED stripeTxns
  /\ bg' = [bg EXCEPT ![r] = "increment"]
  /\ UNCHANGED <<acct, acct0, lock, reqVars, audit, charges, providerVars, hook, apiVars,
                 gateVars, deliveryVars, edgeVars>>

\* await createBalanceTransaction(..., -reloadAmount, ...) of the background
\* reload.
BgCredit(r) ==
  /\ bg[r] = "credit"
  /\ \/ /\ stripeTxns' = AddTxn(stripeTxns, account[r].stripeCustomerId, -account[r].reloadAmountCents)
        /\ bg' = [bg EXCEPT ![r] = "increment"]
     \/ /\ bg' = [bg EXCEPT ![r] = "failed"]
        /\ UNCHANGED stripeTxns
  /\ UNCHANGED <<acct, acct0, lock, reqVars, audit, charges, providerVars, hook, apiVars,
                 gateVars, deliveryVars, edgeVars>>

\* Mutant: the background reload writes the balance its deduction computed
\* plus the reload amount (a read-modify-write of the captured value).
BackgroundCreditFromCaptured(stored, captured, reloadAmount) == captured + reloadAmount

\* SET credit_balance_cents = credit_balance_cents + reloadAmount: the value
\* written, from the stored value, the balance the scheduling transaction
\* computed, and the reload amount.
BackgroundCredit(stored, captured, reloadAmount) == stored + reloadAmount

\* await db.update(...) of the background reload: one statement outside the
\* transaction, which waits for the row lock.
BgIncrement(r) ==
  /\ bg[r] = "increment"
  /\ RowLockFree
  /\ acct' = [acct EXCEPT !.creditBalanceCents =
                BackgroundCredit(@, result[r].balance_cents, account[r].reloadAmountCents)]
  /\ bg' = [bg EXCEPT ![r] = "done"]
  /\ UNCHANGED <<acct0, lock, reqVars, audit, stripeVars, hook, apiVars,
                 gateVars, deliveryVars, edgeVars>>

\* The background reload's db.update throws: logged and swallowed.
BgIncrementFail(r) ==
  /\ bg[r] = "increment"
  /\ bg' = [bg EXCEPT ![r] = "failed"]
  /\ UNCHANGED <<acct, acct0, lock, reqVars, audit, stripeVars, hook, apiVars,
                 gateVars, deliveryVars, edgeVars>>

\* ------------------- POST /v1/webhooks/stripe/:appId, checkout.session.completed

\* Mutant: the account's stored reload amount is preferred to the event's.
HookReloadAmountStoredFirst(metadata, a) ==
  IF TruthyInt(a.reloadAmountCents) THEN a.reloadAmountCents ELSE metadata

\* session.metadata?.reload_amount_cents ? parseInt(...) : account.reloadAmountCents
HookReloadAmount(metadata, a) ==
  IF TruthyInt(metadata) THEN metadata ELSE a.reloadAmountCents

\* Mutant: an event that was already acknowledged finds nothing to credit.
FoundByCustomerOnce(customerId) ==
  acct.exists /\ acct.stripeCustomerId = customerId /\ deliveries.acked = 0

\* The row the webhook's lookup by provider customer id finds, if any.
FoundByCustomer(customerId) ==
  acct.exists /\ acct.stripeCustomerId = customerId

\* The deliveries record after a delivery is started.
Started1(d) == [d EXCEPT !.started = @ + 1]

\* The deliveries record after a delivery is acknowledged with a 200.
Acked1(d) == [d EXCEPT !.acked = @ + 1]

\* The handler's state after its SELECT by stripeCustomerId, for an event with
\* customer c, payment method p and metadata amount m.
HookSelected(c, p, m) ==
  LET reload == HookReloadAmount(m, acct) IN
  IF ~TruthyId(c) \/ ~FoundByCustomer(c)
  THEN HookDone(200, FALSE)
  ELSE [pc |-> IF TruthyInt(reload) /\ TruthyId(acct.stripeCustomerId)
               THEN "credit" ELSE "update",
        customer |-> c, payment_method |-> p, metadata |-> m,
        account |-> acct,
        reloadAmountCents |-> reload, updated |-> FALSE, status |-> 0]

\* A verified checkout.session.completed event arrives: handleCheckoutCompleted
\* up to its SELECT by stripeCustomerId (a plain read of the committed row).
HookArrives(c, p, m) ==
  /\ hook.pc = "idle"
  /\ event.fixed => (event.customer = c /\ event.payment_method = p
                      /\ event.metadata = m)
  /\ hook' = HookSelected(c, p, m)
  /\ deliveries' = IF HookSelected(c, p, m).pc = "done"
                   THEN Acked1(Started1(deliveries))
                   ELSE Started1(deliveries)

\* A delivery whose signature was verified and whose type is
\* checkout.session.completed.
HookSelect ==
  /\ \E c \in CustomerIds \cup customers, p \in PaymentMethodIds,
        m \in {NULL} \cup ReloadAmounts : HookArrives(c, p, m)
  /\ UNCHANGED <<acct, acct0, lock, reqVars, taskVars, stripeVars, apiVars,
                 gateVars, event, edgeVars>>

\* await createBalanceTransaction(..., -reloadAmountCents, "Initial reload credit")
HookCredit ==
  /\ hook.pc = "credit"
  /\ \/ /\ stripeTxns' = AddTxn(stripeTxns, hook.account.stripeCustomerId, -hook.reloadAmountCents)
        /\ hook' = [hook EXCEPT !.pc = "update"]
     \/ /\ hook' = HookDone(500, FALSE)
        /\ UNCHANGED stripeTxns
  /\ UNCHANGED <<acct, acct0, lock, reqVars, taskVars, charges, providerVars, apiVars,
                 gateVars, deliveryVars, edgeVars>>

\* const newBalance = account.creditBalanceCents + (reloadAmountCents ?? 0)
HookNewBalance(a, reload) ==
  a.creditBalanceCents + (IF reload = NULL THEN 0 ELSE reload)

\* The row after the webhook's UPDATE ... WHERE stripeCustomerId = customerId.
HookUpdatedRow(row, h) ==
  IF ~(row.exists /\ row.stripeCustomerId = h.customer) THEN row
  ELSE [row EXCEPT
          !.billingMode = "payg",
          !.creditBalanceCents = HookNewBalance(h.account, h.reloadAmountCents),
          !.reloadAmountCents = IF h.reloadAmountCents = NULL
                                THEN h.account.reloadAmountCents
                                ELSE h.reloadAmountCents,
          !.stripePaymentMethodId = IF TruthyId(h.payment_method)
                                    THEN h.payment_method ELSE @]

\* await db.update(...): one statement, which waits for the row lock.
HookUpdate ==
  /\ hook.pc = "update"
  /\ RowLockFree
  /\ acct' = HookUpdatedRow(acct, hook)
  /\ hook' = HookDone(200, TRUE)
  /\ deliveries' = Acked1(deliveries)
  /\ UNCHANGED <<acct0, lock, reqVars, taskVars, stripeVars, apiVars,
                 gateVars, event, edgeVars>>

\* The handler keeps no record of the events it has processed (there is no
\* event-id table and no check of event.id), so a second delivery of the same
\* event enters handleCheckoutCompleted exactly as the first one did.
HookRedeliver ==
  /\ hook.pc = "done"
  /\ event.fixed
  /\ deliveries.started < MaxDeliveries
  /\ hook' = NoHook
  /\ UNCHANGED <<acct, acct0, lock, reqVars, taskVars, stripeVars, apiVars,
                 gateVars, deliveryVars, edgeVars>>

\* ----------------------- POST /v1/webhooks/stripe/:appId, the route handler

\* The stripe-signature header: absent, present but rejected by
\* constructWebhookEvent (which throws), or verified.
Signatures == {"missing", "invalid", "valid"}

EventTypes == {"checkout.session.completed", "payment_intent.succeeded",
               "payment_intent.payment_failed", "customer.created"}

\* paymentIntent.metadata?.type: "auto_reload" or anything else (or absent).
MetaTypes == {"auto_reload", "other"}

\* The payment methods an event can report: none, the stored one, another one.
EventPaymentMethodIds == PaymentMethodIds \cup {"pm_2"}

\* Mutant: a signature header is accepted whenever it is present.
SignatureAcceptedIfPresent(sig) == sig # "missing"

\* if (!signature) -> 400; constructWebhookEvent throws -> 400.  Verification
\* resolves the app's webhook secret and Stripe handle and checks the signature
\* locally: it sends no request to the provider.
SignatureAccepted(sig) == sig = "valid"

\* Mutant: the payment_failed case falls through to the payment handler.
HandlerForFallThrough(type) ==
  CASE type = "checkout.session.completed" -> "checkout"
    [] type = "payment_intent.succeeded" -> "payment"
    [] type = "payment_intent.payment_failed" -> "payment"
    [] OTHER -> "none"

\* switch (event.type)
HandlerFor(type) ==
  CASE type = "checkout.session.completed" -> "checkout"
    [] type = "payment_intent.succeeded" -> "payment"
    [] OTHER -> "none"

\* Mutant: every payment intent is processed, whatever its metadata type.
AnyPaymentIntent(metadata_type) == TRUE

\* if (paymentIntent.metadata?.type !== "auto_reload") return
AutoReloadOnly(metadata_type) == metadata_type = "auto_reload"

\* The request once the route has answered.
WebhookDone(req, code) == [req EXCEPT !.pc = "done", !.status = code]

\* handlePaymentSucceeded up to its UPDATE: the returns on a foreign metadata
\* type, a missing customer and a missing account, and the comparison of the
\* reported payment method with the stored one.
PaymentSelected(req) ==
  IF \/ ~AutoReloadOnly(req.metadata_type)
     \/ ~TruthyId(req.customer)
     \/ ~FoundByCustomer(req.customer)
  THEN WebhookDone(req, 200)
  ELSE IF TruthyId(req.payment_method)
          /\ req.payment_method # acct.stripePaymentMethodId
       THEN [req EXCEPT !.pc = "update"]
       ELSE WebhookDone(req, 200)

\* A request reaches the webhook route: the signature checks, then the switch on
\* the event type.  A checkout-completed event enters handleCheckoutCompleted;
\* a payment-succeeded event runs handlePaymentSucceeded up to its UPDATE; any
\* other type is acknowledged at once.
WebhookReceive ==
  /\ wh.pc = "idle"
  /\ \E sig \in Signatures, type \in EventTypes, mt \in MetaTypes,
        c \in CustomerIds \cup customers, p \in EventPaymentMethodIds :
       LET req == [pc |-> "idle", signature |-> sig, type |-> type,
                   metadata_type |-> mt, customer |-> c, payment_method |-> p,
                   status |-> 0] IN
       IF ~SignatureAccepted(sig)
       THEN /\ wh' = WebhookDone(req, 400)
            /\ UNCHANGED <<hook, deliveries>>
       ELSE CASE HandlerFor(type) = "checkout" ->
                   /\ p \in PaymentMethodIds
                   /\ \E m \in {NULL} \cup ReloadAmounts : HookArrives(c, p, m)
                   /\ wh' = [req EXCEPT !.pc = "checkout"]
              [] HandlerFor(type) = "payment" ->
                   /\ wh' = PaymentSelected(req)
                   /\ UNCHANGED <<hook, deliveries>>
              [] OTHER ->
                   /\ wh' = WebhookDone(req, 200)
                   /\ UNCHANGED <<hook, deliveries>>
  /\ UNCHANGED <<acct, acct0, lock, reqVars, taskVars, stripeVars, apiVars,
                 gateVars, event, balReq, txnReq, http>>

\* handleCheckoutCompleted has returned (200) or thrown (500): the route answers.
WebhookCheckoutReturn ==
  /\ wh.pc = "checkout"
  /\ hook.pc = "done"
  /\ wh' = WebhookDone(wh, hook.status)
  /\ UNCHANGED <<acct, acct0, lock, reqVars, taskVars, stripeVars, hook, apiVars,
                 gateVars, deliveryVars, balReq, txnReq, http>>

\* The row after UPDATE ... SET stripePaymentMethodId = pmId
\* WHERE stripeCustomerId = customerId.
PaymentUpdatedRow(row, req) ==
  IF row.exists /\ row.stripeCustomerId = req.customer
  THEN [row EXCEPT !.stripePaymentMethodId = req.payment_method]
  ELSE row

\* handlePaymentSucceeded's UPDATE, one statement that waits for the row lock,
\* then res.json({ received: true }).
WebhookUpdatePm ==
  /\ wh.pc = "update"
  /\ RowLockFree
  /\ acct' = PaymentUpdatedRow(acct, wh)
  /\ wh' = WebhookDone(wh, 200)
  /\ UNCHANGED <<acct0, lock, reqVars, taskVars, stripeVars, hook, apiVars,
                 gateVars, deliveryVars, balReq, txnReq, http>>

\* The UPDATE throws: the route's catch answers 500.
WebhookUpdatePmFail ==
  /\ wh.pc = "update"
  /\ wh' = WebhookDone(wh, 500)
  /\ UNCHANGED <<acct, acct0, lock, reqVars, taskVars, stripeVars, hook, apiVars,
                 gateVars, deliveryVars, balReq, txnReq, http>>

\* --------------------------------- middleware in front of the route handlers

\* The x-api-key header: absent, different from BILLING_SERVICE_API_KEY, equal.
ApiKeys == {"missing", "wrong", "correct"}

\* if (!apiKey || apiKey !== process.env.BILLING_SERVICE_API_KEY) -> 401
KeyAccepted(api_key) == api_key = "correct"

\* The routes of the accounts, credits and checkout routers, all mounted after
\* app.use(requireApiKey) and all declared with requireOrgHeaders.
ProtectedRoutes == {"GET /v1/accounts", "GET /v1/accounts/balance",
                    "GET /v1/accounts/transactions", "PATCH /v1/accounts/mode",
                    "POST /v1/credits/deduct", "POST /v1/checkout-sessions"}

\* Mounted ahead of requireApiKey.
PublicRoutes == {"GET /openapi.json"}

Routes == ProtectedRoutes \cup PublicRoutes \cup {"GET /v1/unknown"}

\* Mutant: the routers are mounted ahead of requireApiKey, which then runs
\* last.
AfterStageRouteFirst(stage) ==
  CASE stage = "public" -> "route"
    [] stage = "route" -> "requireOrgHeaders"
    [] stage = "requireOrgHeaders" -> "requireApiKey"
    [] stage = "requireApiKey" -> "handler"

\* The order in which app.use and the route declarations chain the middleware:
\* public routes, requireApiKey, the routers' route matching, requireOrgHeaders,
\* the handler.
AfterStage(stage) ==
  CASE stage = "public" -> "requireApiKey"
    [] stage = "requireApiKey" -> "route"
    [] stage = "route" -> "requireOrgHeaders"
    [] stage = "requireOrgHeaders" -> "handler"

\* The middleware answers and the chain stops.
HttpDone(req, code) == [req EXCEPT !.pc = "done", !.status = code]

\* next(): the following middleware runs.
HttpNext(req) == [req EXCEPT !.pc = AfterStage(req.pc)]

\* A request arrives, with or without the key and the two headers.
HttpArrive ==
  /\ http.pc = "idle"
  /\ \E k \in ApiKeys, route \in Routes, org \in BOOLEAN, app \in BOOLEAN :
       http' = [pc |-> "public", api_key |-> k, route |-> route, org_id |-> org,
                app_id |-> app, status |-> 0]
  /\ UNCHANGED <<acct, acct0, lock, reqVars, taskVars, stripeVars, hook, apiVars,
                 gateVars, deliveryVars, wh, balReq, txnReq>>

\* app.get("/openapi.json"): the file is sent, or 404 when it cannot be read.
HttpPublic ==
  /\ http.pc = "public"
  /\ IF http.route \in PublicRoutes
     THEN \E code \in {200, 404} : http' = HttpDone(http, code)
     ELSE http' = HttpNext(http)
  /\ UNCHANGED <<acct, acct0, lock, reqVars, taskVars, stripeVars, hook, apiVars,
                 gateVars, deliveryVars, wh, balReq, txnReq>>

\* requireApiKey
HttpRequireApiKey ==
  /\ http.pc = "requireApiKey"
  /\ http' = IF ~KeyAccepted(http.api_key) THEN HttpDone(http, 401)
             ELSE HttpNext(http)
  /\ UNCHANGED <<acct, acct0, lock, reqVars, taskVars, stripeVars, hook, apiVars,
                 gateVars, deliveryVars, wh, balReq, txnReq>>

\* The routers find the route, or the request falls to the 404 handler.
HttpRoute ==
  /\ http.pc = "route"
  /\ http' = IF http.route \notin ProtectedRoutes THEN HttpDone(http, 404)
             ELSE HttpNext(http)
  /\ UNCHANGED <<acct, acct0, lock, reqVars, taskVars, stripeVars, hook, apiVars,
                 gateVars, deliveryVars, wh, balReq, txnReq>>

\* requireOrgHeaders: x-org-id, then x-app-id.
HttpRequireOrgHeaders ==
  /\ http.pc = "requireOrgHeaders"
  /\ http' = IF ~http.org_id THEN HttpDone(http, 400)
             ELSE IF ~http.app_id THEN HttpDone(http, 400)
             ELSE HttpNext(http)
  /\ UNCHANGED <<acct, acct0, lock, reqVars, taskVars, stripeVars, hook, apiVars,
                 gateVars, deliveryVars, wh, balReq, txnReq>>

\* ------------------------------------------------ GET /v1/accounts/balance

\* Mutant: depleted only below zero.
DepletedBelowZero(balance) == balance < 0

\* depleted: account.creditBalanceCents <= 0
Depleted(balance) == balance <= 0

\* The whole handler: a plain SELECT of the committed row, then 404 or the
\* balance, mode and depleted flag.  It writes nothing.
BalanceGet ==
  /\ balReq.pc = "idle"
  /\ balReq' = IF ~acct.exists
               THEN [NoRead EXCEPT !.pc = "done", !.status = 404]
               ELSE [pc |-> "done", status |-> 200,
                     balance_cents |-> acct.creditBalanceCents,
                     billing_mode |-> acct.billingMode,
                     depleted |-> Depleted(acct.creditBalanceCents)]
  /\ UNCHANGED <<acct, acct0, lock, reqVars, taskVars, stripeVars, hook, apiVars,
                 gateVars, deliveryVars, wh, txnReq, http>>

\* ------------------------------------------- GET /v1/accounts/transactions

\* The number of balance transactions the provider holds for a customer.
ListBalanceTransactions(customer) ==
  LET own == {t \in BagToSet(stripeTxns) : t.customer = customer} IN
  BagCardinality([t \in own |-> stripeTxns[t]])

\* The SELECT: 404 without a row, an empty list without a provider customer.
TransactionsSelect ==
  /\ txnReq.pc = "idle"
  /\ txnReq' = IF ~acct.exists
               THEN [NoTxnRead EXCEPT !.pc = "done", !.status = 404]
               ELSE IF ~TruthyId(acct.stripeCustomerId)
                    THEN [NoTxnRead EXCEPT !.pc = "done", !.status = 200]
                    ELSE [NoTxnRead EXCEPT !.pc = "list",
                                           !.customer = acct.stripeCustomerId]
  /\ UNCHANGED <<acct, acct0, lock, reqVars, taskVars, stripeVars, hook, apiVars,
                 gateVars, deliveryVars, wh, balReq, http>>

\* await listBalanceTransactions(account.stripeCustomerId): the list is
\* returned, or the call throws and the handler answers 500.
TransactionsList ==
  /\ txnReq.pc = "list"
  /\ \/ txnReq' = [txnReq EXCEPT !.pc = "done", !.status = 200,
                                 !.listed = ListBalanceTransactions(txnReq.customer)]
     \/ txnReq' = [txnReq EXCEPT !.pc = "done", !.status = 500]
  /\ UNCHANGED <<acct, acct0, lock, reqVars, taskVars, stripeVars, hook, apiVars,
                 gateVars, deliveryVars, wh, balReq, http>>

\* ------------------------------------------------ PATCH /v1/accounts/mode

\* Mutant: the request body is parsed with BillingModeSchema, which has trial.
ModeAcceptedAny(mode) == mode \in Modes

\* UpdateModeRequestSchema: mode is "byok" or "payg".
ModeAccepted(mode) == mode \in {"byok", "payg"}

\* Mutant: the validation without the payment-method check.
ModeRejectionWithoutPaymentMethod(a, mode, reload) ==
  IF ~a.exists THEN 404
  ELSE IF mode = "payg" /\ ~TruthyInt(reload) THEN 400
  ELSE 0

\* The status the handler answers before writing, 0 when the request passes:
\* account not found, PAYG without a payment method, PAYG without a reload
\* amount.
ModeRejection(a, mode, reload) ==
  IF ~a.exists THEN 404
  ELSE IF mode = "payg" /\ ~TruthyId(a.stripePaymentMethodId) THEN 400
  ELSE IF mode = "payg" /\ ~TruthyInt(reload) THEN 400
  ELSE 0

\* The request is parsed, the row is read (a plain SELECT of the committed
\* row) and the transition is validated.
ModeSelect(m) ==
  /\ modeReq[m].pc = "idle"
  /\ \E mode \in Modes, reload \in {NULL} \cup ReloadAmounts :
       modeReq' = [modeReq EXCEPT ![m] =
         IF ~ModeAccepted(mode) THEN ModeDone(400, mode, reload)
         ELSE IF ModeRejection(acct, mode, reload) # 0
              THEN ModeDone(ModeRejection(acct, mode, reload), mode, reload)
              ELSE [pc |-> "update", mode |-> mode, reload_amount_cents |-> reload,
                    status |-> 0]]
  /\ UNCHANGED <<acct, acct0, lock, reqVars, taskVars, stripeVars, hook, getReq, coReq,
                 gateVars, deliveryVars, edgeVars>>

\* Mutant: switching to payg with an amount also credits that amount.
ModeUpdatedRowCrediting(row, mode, reload) ==
  [row EXCEPT !.billingMode = mode,
              !.reloadAmountCents = IF mode = "payg" /\ TruthyInt(reload)
                                    THEN reload ELSE @,
              !.creditBalanceCents = IF mode = "payg" /\ TruthyInt(reload)
                                     THEN @ + reload ELSE @]

\* updateData: billingMode always, reloadAmountCents for PAYG with an amount.
ModeUpdatedRow(row, mode, reload) ==
  [row EXCEPT !.billingMode = mode,
              !.reloadAmountCents = IF mode = "payg" /\ TruthyInt(reload)
                                    THEN reload ELSE @]

\* await db.update(...).returning(): one statement, which waits for the row
\* lock.
ModeUpdate(m) ==
  /\ modeReq[m].pc = "update"
  /\ RowLockFree
  /\ acct' = ModeUpdatedRow(acct, modeReq[m].mode, modeReq[m].reload_amount_cents)
  /\ modeReq' = [modeReq EXCEPT ![m] = ModeDone(200, modeReq[m].mode, modeReq[m].reload_amount_cents)]
  /\ UNCHANGED <<acct0, lock, reqVars, taskVars, stripeVars, hook, getReq, coReq,
                 gateVars, deliveryVars, edgeVars>>

\* The UPDATE throws: the catch answers 500.
ModeUpdateFail(m) ==
  /\ modeReq[m].pc = "update"
  /\ modeReq' = [modeReq EXCEPT ![m] = ModeDone(500, modeReq[m].mode, modeReq[m].reload_amount_cents)]
  /\ UNCHANGED <<acct, acct0, lock, reqVars, taskVars, stripeVars, hook, getReq, coReq,
                 gateVars, deliveryVars, edgeVars>>

\* -------------------------------- GET /v1/accounts (get or auto-create)

\* The id the provider gives the customer created for account request g.
GetCustomerId(g) == "cus_g" \o ToString(g)

\* The id defaultRandom() gives the row inserted by account request g.
GetAccountId(g) == "acc_g" \o ToString(g)

\* The row an insert stores: the values given and the column defaults.
NewAccount(id, customer, credit) ==
  [exists |-> TRUE, id |-> id, stripeCustomerId |-> customer,
   billingMode |-> "trial", creditBalanceCents |-> credit,
   reloadAmountCents |-> NULL, reloadThresholdCents |-> ThresholdColumnDefault,
   stripePaymentMethodId |-> NoId]

\* The lookup by org id: an existing account is returned as it is.
GetSelect(g) ==
  /\ getReq[g].pc = "idle"
  /\ getReq' = [getReq EXCEPT ![g] =
                  IF acct.exists THEN GetDone(200, acct.id)
                  ELSE [NoGet EXCEPT !.pc = "customer"]]
  /\ UNCHANGED <<acct, acct0, lock, reqVars, taskVars, stripeVars, hook, modeReq, coReq,
                 gateVars, deliveryVars, edgeVars>>

\* await createCustomer(orgId)
GetCreateCustomer(g) ==
  /\ getReq[g].pc = "customer"
  /\ \/ /\ customers' = customers \cup {GetCustomerId(g)}
        /\ getReq' = [getReq EXCEPT ![g] =
                        [NoGet EXCEPT !.pc = "credit", !.customer = GetCustomerId(g)]]
     \/ /\ getReq' = [getReq EXCEPT ![g] = GetDone(500, NoId)]
        /\ UNCHANGED customers
  /\ UNCHANGED <<acct, acct0, lock, reqVars, taskVars, charges, stripeTxns, sessions,
                 hook, modeReq, coReq,
                 gateVars, deliveryVars, edgeVars>>

\* await createBalanceTransaction(stripeCustomer.id, -200, "Trial credit")
GetTrialCredit(g) ==
  /\ getReq[g].pc = "credit"
  /\ \/ /\ stripeTxns' = AddTxn(stripeTxns, getReq[g].customer, -TrialGrantCents)
        /\ getReq' = [getReq EXCEPT ![g].pc = "insert"]
     \/ /\ getReq' = [getReq EXCEPT ![g] = GetDone(500, NoId)]
        /\ UNCHANGED stripeTxns
  /\ UNCHANGED <<acct, acct0, lock, reqVars, taskVars, charges, providerVars,
                 hook, modeReq, coReq,
                 gateVars, deliveryVars, edgeVars>>

\* Mutant: a plain INSERT, which fails on the unique index when the row is
\* already there.
GetInsertWithoutOnConflict(g) ==
  /\ getReq[g].pc = "insert"
  /\ IF acct.exists
     THEN /\ getReq' = [getReq EXCEPT ![g] = GetDone(500, NoId)]
          /\ UNCHANGED acct
     ELSE /\ acct' = NewAccount(GetAccountId(g), getReq[g].customer, TrialCreditCents)
          /\ getReq' = [getReq EXCEPT ![g] = GetDone(200, GetAccountId(g))]
  /\ UNCHANGED <<acct0, lock, reqVars, taskVars, stripeVars, hook, modeReq, coReq,
                 gateVars, deliveryVars, edgeVars>>

\* INSERT ... ON CONFLICT (org_id) DO NOTHING RETURNING *: the row is stored
\* and returned, or nothing is returned when another request stored it first.
GetInsert(g) ==
  /\ getReq[g].pc = "insert"
  /\ IF acct.exists
     THEN /\ getReq' = [getReq EXCEPT ![g].pc = "refetch"]
          /\ UNCHANGED acct
     ELSE /\ acct' = NewAccount(GetAccountId(g), getReq[g].customer, TrialCreditCents)
          /\ getReq' = [getReq EXCEPT ![g] = GetDone(200, GetAccountId(g))]
  /\ UNCHANGED <<acct0, lock, reqVars, taskVars, stripeVars, hook, modeReq, coReq,
                 gateVars, deliveryVars, edgeVars>>

\* The re-fetch after a conflict.
GetRefetch(g) ==
  /\ getReq[g].pc = "refetch"
  /\ getReq' = [getReq EXCEPT ![g] = GetDone(200, acct.id)]
  /\ UNCHANGED <<acct, acct0, lock, reqVars, taskVars, stripeVars, hook, modeReq, coReq,
                 gateVars, deliveryVars, edgeVars>>

\* ------------------------------------------- POST /v1/checkout-sessions

CheckoutCustomerId(c) == "cus_c" \o ToString(c)

CheckoutAccountId(c) == "acc_c" \o ToString(c)

\* Where the handler goes once it holds an account: it creates a provider
\* customer for an account without one, else the checkout session.
AfterAccount(a) == IF TruthyId(a.stripeCustomerId) THEN "session" ELSE "attach"

\* The request is parsed and the account is looked up.
CheckoutSelect(c) ==
  /\ coReq[c].pc = "idle"
  /\ \E reload \in ReloadAmounts :
       coReq' = [coReq EXCEPT ![c] =
         IF acct.exists
         THEN [NoCheckout EXCEPT !.pc = AfterAccount(acct),
                                 !.customer = acct.stripeCustomerId,
                                 !.reload_amount_cents = reload]
         ELSE [NoCheckout EXCEPT !.pc = "customer", !.reload_amount_cents = reload]]
  /\ UNCHANGED <<acct, acct0, lock, reqVars, taskVars, stripeVars, hook, modeReq, getReq,
                 gateVars, deliveryVars, edgeVars>>

\* The statuses the catch block answers: 502 for a provider authentication
\* error, 500 otherwise.
CheckoutErrors == {500, 502}

\* await createCustomer(...) for the account about to be created.
CheckoutCreateCustomer(c) ==
  /\ coReq[c].pc = "customer"
  /\ \/ /\ customers' = customers \cup {CheckoutCustomerId(c)}
        /\ coReq' = [coReq EXCEPT ![c].pc = "insert",
                                  ![c].customer = CheckoutCustomerId(c)]
     \/ /\ \E code \in CheckoutErrors : coReq' = [coReq EXCEPT ![c] = CheckoutDone(code)]
        /\ UNCHANGED customers
  /\ UNCHANGED <<acct, acct0, lock, reqVars, taskVars, charges, stripeTxns, sessions,
                 hook, modeReq, getReq,
                 gateVars, deliveryVars, edgeVars>>

\* INSERT ... ON CONFLICT DO NOTHING RETURNING *: the created row, or nothing.
CheckoutInsert(c) ==
  /\ coReq[c].pc = "insert"
  /\ IF acct.exists
     THEN /\ coReq' = [coReq EXCEPT ![c].pc = "refetch"]
          /\ UNCHANGED acct
     ELSE /\ acct' = NewAccount(CheckoutAccountId(c), coReq[c].customer,
                                CheckoutCreditCents)
          /\ coReq' = [coReq EXCEPT ![c].pc = "session"]
  /\ UNCHANGED <<acct0, lock, reqVars, taskVars, stripeVars, hook, modeReq, getReq,
                 gateVars, deliveryVars, edgeVars>>

\* account = created || (await select)[0]
CheckoutRefetch(c) ==
  /\ coReq[c].pc = "refetch"
  /\ coReq' = [coReq EXCEPT ![c].pc = AfterAccount(acct),
                            ![c].customer = acct.stripeCustomerId]
  /\ UNCHANGED <<acct, acct0, lock, reqVars, taskVars, stripeVars, hook, modeReq, getReq,
                 gateVars, deliveryVars, edgeVars>>

\* await createCustomer(...) for an account that has no provider customer.
CheckoutAttachCustomer(c) ==
  /\ coReq[c].pc = "attach"
  /\ \/ /\ customers' = customers \cup {CheckoutCustomerId(c)}
        /\ coReq' = [coReq EXCEPT ![c].pc = "setCustomer",
                                  ![c].customer = CheckoutCustomerId(c)]
     \/ /\ \E code \in CheckoutErrors : coReq' = [coReq EXCEPT ![c] = CheckoutDone(code)]
        /\ UNCHANGED customers
  /\ UNCHANGED <<acct, acct0, lock, reqVars, taskVars, charges, stripeTxns, sessions,
                 hook, modeReq, getReq,
                 gateVars, deliveryVars, edgeVars>>

\* await db.update({ stripeCustomerId }).returning(): waits for the row lock;
\* account is the row as updated.
CheckoutSetCustomer(c) ==
  /\ coReq[c].pc = "setCustomer"
  /\ RowLockFree
  /\ acct' = [acct EXCEPT !.stripeCustomerId = coReq[c].customer]
  /\ coReq' = [coReq EXCEPT ![c].pc = "session"]
  /\ UNCHANGED <<acct0, lock, reqVars, taskVars, stripeVars, hook, modeReq, getReq,
                 gateVars, deliveryVars, edgeVars>>

\* await createCheckoutSession(account.stripeCustomerId, ..., reload_amount_cents)
CheckoutCreateSession(c) ==
  /\ coReq[c].pc = "session"
  /\ \/ /\ sessions' = sessions \cup {[customer |-> coReq[c].customer,
                                         reload_amount_cents |-> coReq[c].reload_amount_cents]}
        /\ coReq' = [coReq EXCEPT ![c].pc = "store"]
     \/ /\ \E code \in CheckoutErrors : coReq' = [coReq EXCEPT ![c] = CheckoutDone(code)]
        /\ UNCHANGED sessions
  /\ UNCHANGED <<acct, acct0, lock, reqVars, taskVars, charges, stripeTxns, customers,
                 hook, modeReq, getReq,
                 gateVars, deliveryVars, edgeVars>>

\* await db.update({ reloadAmountCents }): waits for the row lock; then the
\* response.
CheckoutStoreReload(c) ==
  /\ coReq[c].pc = "store"
  /\ RowLockFree
  /\ acct' = [acct EXCEPT !.reloadAmountCents = coReq[c].reload_amount_cents]
  /\ coReq' = [coReq EXCEPT ![c] = CheckoutDone(200)]
  /\ UNCHANGED <<acct0, lock, reqVars, taskVars, stripeVars, hook, modeReq, getReq,
                 gateVars, deliveryVars, edgeVars>>

\* ------------------------------------------- provider gateway: withAuthRetry

\* What an invocation of the operation does: it returns, fails with an
\* authentication error, or fails with another error.
Outcomes == {"ok", "auth", "other"}

\* Mutant: every error counts as an authentication error.
IsAnyError(o) == o # "ok"

\* isStripeAuthError(err)
IsStripeAuthError(o) == o = "auth"

\* A gateway function is called: withAuthRetry starts getStripe, whose cache
\* lookup runs at once; a miss goes on to the key resolver.
GwCall(c) ==
  /\ gw[c].pc = "idle"
  /\ \E k \in Selectors :
       gw' = [gw EXCEPT ![c] =
                IF stripeInstances[k] # 0
                THEN [NoCall EXCEPT !.pc = "attempt", !.selector = k,
                                    !.handle = stripeInstances[k]]
                ELSE [NoCall EXCEPT !.pc = "resolve", !.selector = k]]
  /\ UNCHANGED <<acct, acct0, lock, reqVars, taskVars, stripeVars, hook, apiVars,
                 stripeInstances, keysResolved, deliveryVars, edgeVars>>

\* resolveKey(...) while getStripe awaits it: the key service reads the
\* selector's credential, the keysResolved-th one it hands out, and sends it.
GwKeyService(c) ==
  /\ gw[c].pc \in {"resolve", "resolveFresh"}
  /\ gw[c].key = 0
  /\ keysResolved < MaxResolves
  /\ keysResolved' = keysResolved + 1
  /\ gw' = [gw EXCEPT ![c].key = keysResolved + 1]
  /\ UNCHANGED <<acct, acct0, lock, reqVars, taskVars, stripeVars, hook, apiVars,
                 stripeInstances, deliveryVars, edgeVars>>

\* Mutant: the cache is looked up again once the resolver has answered, and an
\* entry found there is used in place of the credential received.
GwResolveLooksUpAgain(c) ==
  /\ gw[c].pc \in {"resolve", "resolveFresh"}
  /\ \/ /\ gw[c].key # 0
        /\ LET found == stripeInstances[gw[c].selector]
               h == IF found # 0 THEN found ELSE gw[c].key
           IN /\ stripeInstances' = [stripeInstances EXCEPT ![gw[c].selector] = h]
              /\ gw' = [gw EXCEPT ![c].handle = h,
                                  ![c].key = 0,
                                  ![c].pc = IF gw[c].pc = "resolve" THEN "attempt"
                                            ELSE "retry"]
     \/ /\ gw[c].key = 0
        /\ gw' = [gw EXCEPT ![c].pc = "done", ![c].outcome = "threw"]
        /\ UNCHANGED stripeInstances
  /\ UNCHANGED <<acct, acct0, lock, reqVars, taskVars, stripeVars, hook, apiVars,
                 keysResolved, deliveryVars, edgeVars>>

\* await resolveKey(...) in getStripe returns: a handle is built from the
\* credential received and stored in the cache, whatever the cache holds by
\* then; or the resolver's error propagates.
GwResolve(c) ==
  /\ gw[c].pc \in {"resolve", "resolveFresh"}
  /\ \/ /\ gw[c].key # 0
        /\ stripeInstances' = [stripeInstances EXCEPT ![gw[c].selector] = gw[c].key]
        /\ gw' = [gw EXCEPT ![c].handle = gw[c].key,
                            ![c].key = 0,
                            ![c].pc = IF gw[c].pc = "resolve" THEN "attempt" ELSE "retry"]
     \/ /\ gw[c].key = 0
        /\ gw' = [gw EXCEPT ![c].pc = "done", ![c].outcome = "threw"]
        /\ UNCHANGED stripeInstances
  /\ UNCHANGED <<acct, acct0, lock, reqVars, taskVars, stripeVars, hook, apiVars,
                 keysResolved, deliveryVars, edgeVars>>

\* return await fn(stripe), and the catch: an authentication error evicts the
\* selector's cache entry and starts getStripe again, whose lookup then
\* misses; any other error is rethrown.
GwAttempt(c) ==
  /\ gw[c].pc = "attempt"
  /\ \E o \in Outcomes :
       /\ gw' = [gw EXCEPT ![c].invocations = @ + 1,
                           ![c].first = o,
                           ![c].evictedAt = IF IsStripeAuthError(o) THEN keysResolved ELSE @,
                           ![c].pc = IF IsStripeAuthError(o) THEN "resolveFresh" ELSE "done",
                           ![c].outcome = IF o = "ok" THEN "returned"
                                          ELSE IF IsStripeAuthError(o) THEN "none"
                                          ELSE "threw"]
       /\ stripeInstances' = IF IsStripeAuthError(o)
                             THEN [stripeInstances EXCEPT ![gw[c].selector] = 0]
                             ELSE stripeInstances
  /\ UNCHANGED <<acct, acct0, lock, reqVars, taskVars, stripeVars, hook, apiVars,
                 keysResolved, deliveryVars, edgeVars>>

\* Mutant: the retry is itself wrapped, so an authentication error of the
\* retry evicts and retries again.
GwRetryAgain(c) ==
  /\ gw[c].pc = "retry"
  /\ \E o \in Outcomes :
       /\ gw' = [gw EXCEPT ![c].invocations = @ + 1,
                           ![c].second = o,
                           ![c].pc = IF IsStripeAuthError(o) THEN "resolveFresh" ELSE "done",
                           ![c].outcome = IF o = "ok" THEN "returned"
                                          ELSE IF IsStripeAuthError(o) THEN "none"
                                          ELSE "threw"]
       /\ stripeInstances' = IF IsStripeAuthError(o)
                             THEN [stripeInstances EXCEPT ![gw[c].selector] = 0]
                             ELSE stripeInstances
  /\ UNCHANGED <<acct, acct0, lock, reqVars, taskVars, stripeVars, hook, apiVars,
                 keysResolved, deliveryVars, edgeVars>>

\* return fn(freshStripe): whatever the retry does is the call's outcome.
GwRetry(c) ==
  /\ gw[c].pc = "retry"
  /\ \E o \in Outcomes :
       gw' = [gw EXCEPT ![c].invocations = @ + 1,
                       ![c].second = o,
                       ![c].pc = "done",
                       ![c].outcome = IF o = "ok" THEN "returned" ELSE "threw"]
  /\ UNCHANGED <<acct, acct0, lock, reqVars, taskVars, stripeVars, hook, apiVars,
                 stripeInstances, keysResolved, deliveryVars, edgeVars>>

\* ------------------------------------------------------- specifications

\* The deduction engine, every database statement succeeding: the handler
\* and its background reload.  The settlement of the handler's provider record
\* (AuditRecord) is a step of its own: it changes only audit and stripeTxns,
\* which no action reads.
DeductStep(r) ==
  \/ DeductRequest(r)
  \/ DeductSelectForUpdate(r)
  \/ DeductSyncCharge(r)
  \/ DeductSyncCredit(r)
  \/ DeductSyncUpdate(r)
  \/ DeductDebit(r)
  \/ DeductCommit(r)
  \/ BgCharge(r)
  \/ BgCredit(r)
  \/ BgIncrement(r)

\* A database statement of the deduction fails.
DeductFault(r) ==
  \/ DeductSyncUpdateFail(r)
  \/ DeductDebitFail(r)
  \/ DeductCommitFail(r)
  \/ BgIncrementFail(r)

HookStep == HookSelect \/ HookCredit \/ HookUpdate

ModeStep(m) == ModeSelect(m) \/ ModeUpdate(m) \/ ModeUpdateFail(m)

NextDeduct == \E r \in Reqs : DeductStep(r)

Next ==
  \/ \E r \in Reqs : DeductStep(r)
  \/ \E r \in Reqs : DeductFault(r)

NextRecord ==
  \/ \E r \in Reqs : DeductStep(r)
  \/ \E r \in Reqs : DeductFault(r)
  \/ \E r \in Reqs : AuditRecord(r)

NextWebhook ==
  \/ \E r \in Reqs : DeductStep(r)
  \/ \E r \in Reqs : DeductFault(r)
  \/ HookStep

GetStep(g) ==
  \/ GetSelect(g)
  \/ GetCreateCustomer(g)
  \/ GetTrialCredit(g)
  \/ GetInsert(g)
  \/ GetRefetch(g)

CheckoutStep(c) ==
  \/ CheckoutSelect(c)
  \/ CheckoutCreateCustomer(c)
  \/ CheckoutInsert(c)
  \/ CheckoutRefetch(c)
  \/ CheckoutAttachCustomer(c)
  \/ CheckoutSetCustomer(c)
  \/ CheckoutCreateSession(c)
  \/ CheckoutStoreReload(c)

GwStep(c) == GwCall(c) \/ GwKeyService(c) \/ GwResolve(c) \/ GwAttempt(c) \/ GwRetry(c)

NextRetry == \E c \in Calls : GwStep(c)

NextAccounts ==
  \/ \E g \in Gets : GetStep(g)
  \/ \E c \in Checkouts : CheckoutStep(c)

NextMode ==
  \/ \E m \in ModeReqs : ModeStep(m)
  \/ HookStep

\* Concurrent deductions with their background reloads; database statements
\* and provider calls may fail.
Spec == Init /\ [][Next]_vars

\* The steps of request r's handler once the request has arrived: each is an
\* await of a database statement or of a provider call, which succeeds or
\* fails.
HandlerStep(r) ==
  \/ DeductSelectForUpdate(r)
  \/ DeductSyncCharge(r)
  \/ DeductSyncCredit(r)
  \/ DeductSyncUpdate(r)
  \/ DeductSyncUpdateFail(r)
  \/ DeductDebit(r)
  \/ DeductDebitFail(r)
  \/ DeductCommit(r)
  \/ DeductCommitFail(r)

\* Spec, where every awaited statement and provider call of a handler
\* eventually settles and the event loop then resumes the handler; a statement
\* waiting for the row lock is resumed once the lock stays free.
SpecLive == Spec /\ \A r \in Reqs : WF_vars(HandlerStep(r))

\* Concurrent deductions with their background reloads; provider calls may
\* fail, database statements do not.
SpecDeduct == Init /\ [][NextDeduct]_vars

\* Spec with the settlement of each deduction's provider record.
SpecRecord == Init /\ [][NextRecord]_vars

\* Spec with a checkout-completed webhook delivery.
SpecWebhook == Init /\ [][NextWebhook]_vars

\* Concurrent mode updates with a checkout-completed webhook delivery.
SpecMode == Init /\ [][NextMode]_vars

\* The service on an empty table: no account exists before the first request.
\* One checkout-completed event, fixed up front, that the provider delivers
\* more than once.
InitRedelivery == InitState /\ event \in Events

NextRedelivery == HookStep \/ HookRedeliver

\* Repeated deliveries of one checkout-completed event, nothing else running.
SpecRedelivery == InitRedelivery /\ [][NextRedelivery]_vars

WebhookStep ==
  WebhookReceive \/ WebhookCheckoutReturn \/ WebhookUpdatePm \/ WebhookUpdatePmFail

NextHooks == WebhookStep \/ HookCredit \/ HookUpdate

\* One request to the webhook route, of any signature and event type.
SpecHooks == Init /\ [][NextHooks]_vars

ReadStep == BalanceGet \/ TransactionsSelect \/ TransactionsList

NextReads ==
  \/ \E r \in Reqs : DeductStep(r)
  \/ \E r \in Reqs : DeductFault(r)
  \/ BalanceGet

\* Concurrent deduct calls with a balance check.
SpecReads == Init /\ [][NextReads]_vars

InitEmpty == Init /\ ~acct.exists

NextAuth ==
  \/ HttpArrive
  \/ HttpPublic
  \/ HttpRequireApiKey
  \/ HttpRoute
  \/ HttpRequireOrgHeaders

\* One request passing through the middleware chain.
SpecAuth == InitEmpty /\ [][NextAuth]_vars

\* The service with no account yet, or with a trial account that has used up
\* its credit and has neither payment method nor reload amount.
InitService ==
  /\ Init
  /\ acct.exists
       => /\ acct.billingMode = "trial"
          /\ acct.creditBalanceCents = 0
          /\ acct.stripePaymentMethodId = NoId
          /\ acct.reloadAmountCents = NULL
          /\ acct.reloadThresholdCents = NULL

\* One request of each kind.
NextService ==
  \/ GetStep(1)
  \/ CheckoutStep(1)
  \/ ModeStep(1)
  \/ HookStep
  \/ DeductStep(1)

\* Every operation of the service on a new or trial account: an account
\* fetch, a checkout-session creation, a webhook delivery, a mode update and
\* a deduction.
SpecService == InitService /\ [][NextService]_vars

\* Everything that writes to the provider's ledger: account creation, the
\* checkout-completed webhook, and a deduction with its reloads and its record.
NextLedger ==
  \/ \E g \in Gets : GetStep(g)
  \/ HookStep
  \/ DeductStep(1)
  \/ DeductFault(1)
  \/ AuditRecord(1)

SpecLedger == Init /\ [][NextLedger]_vars

\* The number of requests that have reached the service so far.
RequestsIssued ==
  (IF getReq[1].pc # "idle" THEN 1 ELSE 0)
  + (IF coReq[1].pc # "idle" THEN 1 ELSE 0)
  + (IF modeReq[1].pc # "idle" THEN 1 ELSE 0)
  + (IF wh.pc # "idle" THEN 1 ELSE 0)
  + (IF balReq.pc # "idle" THEN 1 ELSE 0)
  + (IF txnReq.pc # "idle" THEN 1 ELSE 0)
  + (IF pc[1] # "idle" THEN 1 ELSE 0)

\* A request that has arrived runs on; a new one arrives while fewer than
\* MaxRequests have.
MayRun(arrived) == arrived \/ RequestsIssued < MaxRequests

\* Every operation that reads or writes an account: at most MaxRequests
\* requests, of any kinds, running concurrently.
NextFrame ==
  \/ MayRun(getReq[1].pc # "idle") /\ GetStep(1)
  \/ MayRun(coReq[1].pc # "idle") /\ CheckoutStep(1)
  \/ MayRun(modeReq[1].pc # "idle") /\ ModeStep(1)
  \/ MayRun(wh.pc # "idle") /\ WebhookStep
  \/ HookCredit
  \/ HookUpdate
  \/ MayRun(balReq.pc # "idle") /\ BalanceGet
  \/ MayRun(txnReq.pc # "idle") /\ (TransactionsSelect \/ TransactionsList)
  \/ MayRun(pc[1] # "idle") /\ DeductStep(1)

SpecFrame == InitService /\ [][NextFrame]_vars

\* Concurrent gateway calls through withAuthRetry.
SpecRetry == InitEmpty /\ [][NextRetry]_vars

\* Concurrent account fetches and checkout-session creations.
SpecAccounts == Init /\ [][NextAccounts]_vars

\* ------------------------------------------------------------ properties

Done(r) == pc[r] = "done"

Started == {r \in Reqs : pc[r] # "idle"}

\* Request r's handler sends its response in this step.
Completes(r) == pc[r] # "done" /\ pc'[r] = "done"

RECURSIVE SumAmounts(_)
SumAmounts(S) ==
  IF S = {} THEN 0
  ELSE LET r == CHOOSE x \in S : TRUE IN amount_cents[r] + SumAmounts(S \ {r})

\* An existing metered (not byok) row on which neither reload can run: trial
\* mode, or payg lacking a payment method, a provider customer or a reload
\* amount.
NoReloadRow(a) ==
  /\ a.exists
  /\ a.billingMode # "byok"
  /\ \/ a.billingMode = "trial"
     \/ a.stripePaymentMethodId = NoId
     \/ a.stripeCustomerId = NoId
     \/ a.reloadAmountCents = NULL

Succeeded(r) == Done(r) /\ resp[r].status = 200 /\ resp[r].success

\* C1: on a metered account with no reload configured, once every deduct call
\* issued has returned and their amounts sum to at most the initial balance,
\* every call has returned success=true and the stored balance is the initial
\* balance minus the sum of the amounts, whatever the interleaving.
C1_NoLostUpdate ==
  ( /\ NoReloadRow(acct0)
    /\ Started # {}
    /\ \A r \in Started : Done(r)
    /\ SumAmounts(Started) <= acct0.creditBalanceCents )
  => /\ \A r \in Started : Succeeded(r)
     /\ acct.creditBalanceCents = acct0.creditBalanceCents - SumAmounts(Started)

\* Two deductions have both succeeded against a sufficient balance, spending
\* it entirely.
C1_Witness ==
  /\ NoReloadRow(acct0)
  /\ Cardinality(Started) >= 2
  /\ \A r \in Started : Succeeded(r)
  /\ SumAmounts(Started) = acct0.creditBalanceCents
  /\ acct.creditBalanceCents = 0

\* C2: on a metered account with balance B and no reload configured, when
\* exactly two deduct calls with amounts a1 <= B, a2 <= B, a1 + a2 > B have
\* returned, exactly one returned success=true and the other returned
\* success=false, depleted=true with the balance the first left, B minus its
\* amount, which is also the stored balance.
C2_NoDoubleSpend ==
  \A r1, r2 \in Reqs :
    ( /\ r1 # r2
      /\ Started = {r1, r2}
      /\ Done(r1) /\ Done(r2)
      /\ NoReloadRow(acct0)
      /\ amount_cents[r1] <= acct0.creditBalanceCents
      /\ amount_cents[r2] <= acct0.creditBalanceCents
      /\ amount_cents[r1] + amount_cents[r2] > acct0.creditBalanceCents )
    => \E w \in {r1, r2} :
         LET l == IF w = r1 THEN r2 ELSE r1
             left == acct0.creditBalanceCents - amount_cents[w]
         IN /\ resp[w] = [status |-> 200, success |-> TRUE, balance_cents |-> left,
                          billing_mode |-> acct0.billingMode, depleted |-> FALSE]
            /\ resp[l] = [status |-> 200, success |-> FALSE, balance_cents |-> left,
                          billing_mode |-> acct0.billingMode, depleted |-> TRUE]
            /\ acct.creditBalanceCents = left

\* Two deductions that each fit the balance but not together have both
\* returned, one served and one refused.
C2_Witness ==
  \E w, l \in Reqs :
    /\ w # l
    /\ Started = {w, l}
    /\ Done(w) /\ Done(l)
    /\ NoReloadRow(acct0)
    /\ amount_cents[w] <= acct0.creditBalanceCents
    /\ amount_cents[l] <= acct0.creditBalanceCents
    /\ amount_cents[w] + amount_cents[l] > acct0.creditBalanceCents
    /\ resp[w].success /\ ~resp[l].success /\ resp[l].depleted

\* C3: the stored creditBalanceCents is never negative, from a non-negative
\* initial balance and positive deduction and reload amounts, under any
\* interleaving of deductions, synchronous and background reloads and a
\* checkout-completed webhook delivery.
C3_BalanceNeverNegative == acct.creditBalanceCents >= 0

\* A deduction has spent the whole balance after a background reload and the
\* webhook's credit have both been applied.
C3_Witness ==
  /\ hook.pc = "done" /\ hook.status = 200 /\ hook.updated
  /\ \E r \in Reqs : bg[r] = "done"
  /\ \E r \in Reqs : Succeeded(r) /\ syncReload[r].update = "ok"
  /\ \E r \in Reqs : Succeeded(r) /\ resp[r].balance_cents = 0
  /\ acct.creditBalanceCents = 0

\* A reload whose charge has succeeded and whose local credit is still to be
\* written.
ReloadInFlight(r) ==
  \/ pc[r] \in {"syncCredit", "syncUpdate"}
  \/ bg[r] \in {"credit", "increment"}

\* C4: at most one reload of the account is charged and not yet credited
\* locally at any time: no second reload charge is issued while one is in
\* flight.
C4_NoOverlappingReloadCharge ==
  Cardinality({r \in Reqs : ReloadInFlight(r)}) <= 1

\* C5: a deduct call whose synchronous reload was charged and credited at the
\* provider and whose local balance update then failed answers with a server
\* error.
C5_FailedReloadUpdateIsFatal ==
  \A r \in Reqs :
    (Done(r) /\ syncReload[r].charge = "ok" /\ syncReload[r].update = "failed")
    => resp[r].status = 500

\* The amount a returned call has debited: its amount if it succeeded on a
\* metered account.
Debited(r) ==
  IF Succeeded(r) /\ resp[r].billing_mode # "byok" THEN amount_cents[r] ELSE 0

\* The reload amount credited locally on behalf of call r: by its synchronous
\* reload and by its background reload.
Reloaded(r) ==
  (IF syncReload[r].update = "ok" THEN account[r].reloadAmountCents ELSE 0)
  + (IF bg[r] = "done" THEN account[r].reloadAmountCents ELSE 0)

RECURSIVE SumDebited(_)
SumDebited(S) ==
  IF S = {} THEN 0
  ELSE LET r == CHOOSE x \in S : TRUE IN Debited(r) + SumDebited(S \ {r})

RECURSIVE SumReloaded(_)
SumReloaded(S) ==
  IF S = {} THEN 0
  ELSE LET r == CHOOSE x \in S : TRUE IN Reloaded(r) + SumReloaded(S \ {r})

\* Every call issued has returned success and every background reload started
\* has completed.
AllCompletedSuccessfully ==
  /\ \A r \in Started : Succeeded(r)
  /\ \A r \in Reqs : bg[r] \in {"none", "done"}

\* C6: once the deductions issued and their background reloads have all
\* completed successfully, the stored balance is the initial balance minus the
\* amounts deducted plus the reload amount for each completed reload, whatever
\* the interleaving of the background increments with the deductions.
C6_BackgroundReloadKeepsDebits ==
  AllCompletedSuccessfully
  => acct.creditBalanceCents
       = acct0.creditBalanceCents - SumDebited(Started) + SumReloaded(Started)

\* A background reload has incremented the balance after a later deduction,
\* which read the balance before the increment, had debited it.
C6_Witness ==
  /\ AllCompletedSuccessfully
  /\ \E r1, r2 \in Reqs :
       /\ r1 # r2
       /\ bg[r1] = "done"
       /\ Succeeded(r2)
       /\ account[r2].creditBalanceCents = resp[r1].balance_cents
       /\ resp[r2].balance_cents < resp[r1].balance_cents

\* Call r made no provider call of its own and started no background task.
NoProviderCall(r) ==
  /\ chargeCalls'[r] = 0
  /\ creditCalls'[r] = 0
  /\ audit'[r] = "none"
  /\ bg'[r] = "none"

\* Call r's synchronous reload ran on a payg row with payment method, provider
\* customer and reload amount whose balance did not cover the amount.
SyncReloadCase(r) ==
  /\ account[r].exists
  /\ account[r].billingMode = "payg"
  /\ account[r].stripePaymentMethodId # NoId
  /\ account[r].stripeCustomerId # NoId
  /\ account[r].reloadAmountCents \in ReloadAmounts
  /\ account[r].creditBalanceCents < amount_cents[r]

\* C7: when a deduct call found balance < amount on a payg row with reload
\* configured, its charge and provider credit succeeded, balance + reload
\* covers the amount and no database statement of the call failed, the call
\* answers success=true, depleted=false, balance_cents = balance + reload -
\* amount, and the row stored by its commit holds that balance.
C7_SyncReloadThenDebit ==
  [][\A r \in Reqs :
       ( /\ Completes(r)
         /\ SyncReloadCase(r)
         /\ syncReload[r].charge = "ok" /\ syncReload[r].credit = "ok"
         /\ ~txAborted'[r]
         /\ account[r].creditBalanceCents + account[r].reloadAmountCents
              >= amount_cents[r] )
       => LET after == account[r].creditBalanceCents + account[r].reloadAmountCents
                         - amount_cents[r]
          IN /\ resp'[r] = [status |-> 200, success |-> TRUE, balance_cents |-> after,
                            billing_mode |-> "payg", depleted |-> FALSE]
             /\ acct'.creditBalanceCents = after]_vars

\* A call has been served from a synchronous reload on top of a positive
\* balance.
C7_Witness ==
  \E r \in Reqs :
    /\ Succeeded(r)
    /\ syncReload[r].update = "ok"
    /\ account[r].creditBalanceCents > 0
    /\ resp[r].balance_cents
         = account[r].creditBalanceCents + account[r].reloadAmountCents - amount_cents[r]

\* C8: when a deduct call found the balance insufficient and its synchronous
\* reload's charge failed, the call answers success=false, depleted=true with
\* the balance it read; it debits nothing, records no provider credit, starts
\* no task, leaves the stored row as it read it, and has called the charge
\* once.
C8_FailedChargeDepletes ==
  [][\A r \in Reqs :
       ( /\ Completes(r)
         /\ SyncReloadCase(r)
         /\ syncReload[r].charge = "failed" )
       => /\ resp'[r] = [status |-> 200, success |-> FALSE,
                         balance_cents |-> account[r].creditBalanceCents,
                         billing_mode |-> "payg", depleted |-> TRUE]
          /\ acct' = account[r]
          /\ acct' = acct
          /\ txBalance'[r] = NULL
          /\ chargeCalls'[r] = 1
          /\ creditCalls'[r] = 0
          /\ audit'[r] = "none"
          /\ bg'[r] = "none"]_vars

\* A call whose reload charge failed has returned.
C8_Witness ==
  \E r \in Reqs :
    /\ Done(r)
    /\ syncReload[r].charge = "failed"
    /\ resp[r].depleted
    /\ account[r].creditBalanceCents > 0

\* C9: a deduct call with amount > balance on a metered row with no reload
\* configured answers success=false, depleted=true with the balance it read,
\* makes no provider call and leaves the stored row, balance and mode, as it
\* read it.
C9_DepletedWithoutReload ==
  [][\A r \in Reqs :
       ( /\ Completes(r)
         /\ NoReloadRow(account[r])
         /\ amount_cents[r] > account[r].creditBalanceCents )
       => /\ resp'[r] = [status |-> 200, success |-> FALSE,
                         balance_cents |-> account[r].creditBalanceCents,
                         billing_mode |-> account[r].billingMode, depleted |-> TRUE]
          /\ acct' = account[r]
          /\ acct' = acct
          /\ NoProviderCall(r)]_vars

\* A payg row lacking a payment method has refused a deduction.
C9_Witness ==
  \E r \in Reqs :
    /\ Done(r)
    /\ NoReloadRow(account[r])
    /\ account[r].billingMode = "payg"
    /\ account[r].reloadAmountCents # NULL
    /\ amount_cents[r] > account[r].creditBalanceCents
    /\ resp[r].depleted

\* C10: a deduct call on a byok row answers success=true, balance_cents=null,
\* billing_mode=byok, depleted=false whatever the amount and the stored
\* balance, writes no balance, leaves the stored row as it is and makes no
\* provider call.
C10_ByokBypass ==
  [][\A r \in Reqs :
       ( /\ Completes(r)
         /\ account[r].exists
         /\ account[r].billingMode = "byok" )
       => /\ resp'[r] = [status |-> 200, success |-> TRUE, balance_cents |-> NULL,
                         billing_mode |-> "byok", depleted |-> FALSE]
          /\ txBalance'[r] = NULL
          /\ acct' = acct
          /\ acct'.creditBalanceCents = account[r].creditBalanceCents
          /\ NoProviderCall(r)]_vars

\* Byok calls have returned for an amount above and an amount within the
\* stored balance.
C10_Witness ==
  /\ acct0.exists /\ acct0.billingMode = "byok"
  /\ \E r \in Reqs : Done(r) /\ amount_cents[r] > acct0.creditBalanceCents
  /\ \E r \in Reqs : Done(r) /\ amount_cents[r] <= acct0.creditBalanceCents
  /\ \A r \in Reqs : Done(r) /\ resp[r].success

\* C11: a deduct call that succeeds on a metered row answers balance_cents =
\* balance - amount, the balance its commit stores, with no background reload
\* amount in it; and a background reload has been started for it if and only
\* if that new balance is below reloadThresholdCents (200 when unset) and the
\* row is payg with payment method, provider customer and reload amount.
C11_ThresholdReload ==
  [][\A r \in Reqs :
       ( /\ Completes(r)
         /\ resp'[r].status = 200 /\ resp'[r].success
         /\ account[r].billingMode # "byok" )
       => LET newBalance == currentBalance[r] - amount_cents[r]
              threshold == IF account[r].reloadThresholdCents = NULL
                           THEN 200 ELSE account[r].reloadThresholdCents
          IN /\ resp'[r].balance_cents = newBalance
             /\ acct'.creditBalanceCents = newBalance
             /\ bg'[r] # "none"
                  <=> /\ newBalance < threshold
                      /\ account[r].billingMode = "payg"
                      /\ account[r].stripePaymentMethodId # NoId
                      /\ account[r].stripeCustomerId # NoId
                      /\ account[r].reloadAmountCents \in ReloadAmounts]_vars

\* On a payg row with the threshold unset, one deduction has left exactly 200
\* and started no reload, and the next has left 199 and started one.
C11_Witness ==
  \E r1, r2 \in Reqs :
    /\ Succeeded(r1) /\ Succeeded(r2)
    /\ ReloadConfigured(acct0) /\ acct0.reloadThresholdCents = NULL
    /\ resp[r1].balance_cents = 200 /\ bg[r1] = "none"
    /\ resp[r2].balance_cents = 199 /\ bg[r2] # "none"

\* A row in payg mode holds a payment method and a reload amount.
PaygConfigured(a) ==
  (a.exists /\ a.billingMode = "payg")
  => (a.stripePaymentMethodId # NoId /\ a.reloadAmountCents # NULL)

\* C12: an account in payg mode has a non-null payment method id and a
\* non-null reloadAmountCents in every reachable state, whether a mode update
\* or the checkout-completed webhook moved it into payg (starting from an
\* account for which this holds).
C12_PaygHasPaymentMethod ==
  PaygConfigured(acct0) => PaygConfigured(acct)

\* C13: once the account's billingMode is byok or payg, no step of any
\* operation (mode update, deduction, checkout-session creation, webhook
\* delivery, account fetch) sets it back to trial.
C13_ModeNeverBackToTrial ==
  [][(acct.exists /\ acct.billingMode \in {"byok", "payg"})
     => (acct'.exists /\ acct'.billingMode \in {"byok", "payg"})]_vars

\* The account created by the service has left trial through the webhook, and
\* a mode request for trial, a deduction, an account fetch and a checkout
\* creation have all completed on it.
C13_Witness ==
  /\ ~acct0.exists /\ acct.exists
  /\ acct.billingMode \in {"byok", "payg"}
  /\ hook.pc = "done" /\ hook.updated
  /\ modeReq[1].pc = "done" /\ modeReq[1].mode = "trial" /\ modeReq[1].status = 400
  /\ Done(1) /\ resp[1].status = 200
  /\ getReq[1].pc = "done" /\ getReq[1].status = 200
  /\ coReq[1].pc = "done" /\ coReq[1].status = 200

\* Mode request m is parsed and validated in this step.
ModeValidated(m) == modeReq[m].pc = "idle" /\ modeReq'[m].pc # "idle"

\* C14: a mode request for payg on an account without a stored payment method
\* (or with no account) is answered with a client error and leaves the row
\* unchanged; a request for trial is answered 400 whatever the current mode
\* and leaves the row unchanged; a request for payg with a stored payment
\* method and a reload amount passes validation and, its UPDATE succeeding,
\* answers 200 with billingMode = payg and reloadAmountCents = the amount
\* requested.
C14_ModeUpdateOutcomes ==
  [][\A m \in ModeReqs :
       /\ ( /\ ModeValidated(m)
            /\ modeReq'[m].mode = "payg"
            /\ ~(acct.exists /\ acct.stripePaymentMethodId # NoId) )
          => /\ modeReq'[m].pc = "done"
             /\ modeReq'[m].status \in {400, 404}
             /\ acct' = acct
       /\ (ModeValidated(m) /\ modeReq'[m].mode = "trial")
          => /\ modeReq'[m].pc = "done"
             /\ modeReq'[m].status = 400
             /\ acct' = acct
       /\ ( /\ ModeValidated(m)
            /\ modeReq'[m].mode = "payg"
            /\ modeReq'[m].reload_amount_cents \in ReloadAmounts
            /\ acct.exists /\ acct.stripePaymentMethodId # NoId )
          => modeReq'[m].pc = "update" /\ acct' = acct
       /\ ( /\ modeReq[m].pc = "update" /\ modeReq'[m].pc = "done"
            /\ modeReq[m].mode = "payg"
            /\ modeReq'[m].status # 500 )
          => /\ modeReq'[m].status = 200
             /\ acct'.billingMode = "payg"
             /\ acct'.reloadAmountCents = modeReq[m].reload_amount_cents
             /\ acct'.reloadAmountCents \in ReloadAmounts]_vars

\* A trial account with a payment method has been moved to payg with a new
\* reload amount by one request, and another request for trial has been
\* refused.
C14_Witness ==
  \E m1, m2 \in ModeReqs :
    /\ acct0.exists /\ acct0.billingMode = "trial"
    /\ acct0.stripePaymentMethodId # NoId
    /\ hook.pc = "idle"
    /\ modeReq[m1].pc = "done" /\ modeReq[m1].mode = "payg"
    /\ modeReq[m1].status = 200
    /\ acct.billingMode = "payg"
    /\ acct.reloadAmountCents = modeReq[m1].reload_amount_cents
    /\ acct.reloadAmountCents # acct0.reloadAmountCents
    /\ modeReq[m2].pc = "done" /\ modeReq[m2].mode = "trial"
    /\ modeReq[m2].status = 400

\* C15: concurrent get-or-create calls for one account key store one row,
\* which is never replaced; a call whose insert meets the row another call
\* stored is not answered with an error but with that row; and every call
\* answered 200 has observed the id of the stored row.
C15_GetOrCreateIdempotent ==
  [][/\ acct.exists => (acct'.exists /\ acct'.id = acct.id)
     /\ \A g \in Gets :
          (getReq[g].pc \in {"insert", "refetch"} /\ getReq'[g].pc = "done")
          => getReq'[g].status = 200
     /\ \A g \in Gets :
          (getReq'[g].pc = "done" /\ getReq'[g].status = 200)
          => (acct'.exists /\ getReq'[g].id = acct'.id)]_vars

\* Two first-access calls both found no row and both went on to create it;
\* one stored it, the other met the conflict, and both were answered with the
\* same id.
C15_Witness ==
  /\ ~acct0.exists
  /\ Cardinality({g \in Gets : GetCustomerId(g) \in customers}) >= 2
  /\ \A g \in Gets : getReq[g].pc = "done" /\ getReq[g].status = 200
                        /\ getReq[g].id = acct.id
  /\ acct.exists

\* No request, background task or webhook delivery is in flight.
Quiescent ==
  /\ \A r \in Reqs : /\ pc[r] \in {"idle", "done"}
                      /\ audit[r] # "pending"
                      /\ bg[r] \in {"none", "done", "failed"}
  /\ \A m \in ModeReqs : modeReq[m].pc \in {"idle", "done"}
  /\ \A g \in Gets : getReq[g].pc \in {"idle", "done"}
  /\ \A c \in Checkouts : coReq[c].pc \in {"idle", "done"}
  /\ hook.pc \in {"idle", "done"}

\* No provider call made so far has failed.
AllProviderCallsSucceeded ==
  /\ \A r \in Reqs : /\ audit[r] # "failed"
                      /\ bg[r] # "failed"
                      /\ syncReload[r].charge # "failed"
                      /\ syncReload[r].credit # "failed"
  /\ \A g \in Gets : getReq[g].status \in {0, 200}
  /\ \A c \in Checkouts : coReq[c].status \in {0, 200}
  /\ hook.status \in {0, 200}

RECURSIVE SumTxns(_)
SumTxns(S) ==
  IF S = {} THEN 0
  ELSE LET t == CHOOSE x \in S : TRUE
       IN t.amount * CopiesIn(t, stripeTxns) + SumTxns(S \ {t})

\* The sum of the amounts of the provider balance transactions recorded for a
\* customer.
CustomerLedger(customer) ==
  SumTxns({t \in BagToSet(stripeTxns) : t.customer = customer})

\* C16: in a quiescent state reached through operations whose provider calls
\* all succeeded, an account created by the service that has a provider
\* customer holds creditBalanceCents equal to minus the sum of the provider
\* balance transactions recorded for that customer.
C16_BalanceMatchesLedger ==
  ( /\ Quiescent
    /\ AllProviderCallsSucceeded
    /\ ~acct0.exists /\ acct.exists
    /\ acct.stripeCustomerId # NoId )
  => acct.creditBalanceCents = -CustomerLedger(acct.stripeCustomerId)

\* C17: a gateway call invokes the operation at most twice.  When the first
\* invocation fails with an authentication error, the selector's cache entry
\* is evicted in that step and the call goes to the key resolver; when the
\* resolver returns, the retry runs on the handle built from the credential
\* just resolved; the retry is the second and last invocation, and its
\* failure is the call's failure.
C17_AuthRetryOnce ==
  [][\A c \in Calls :
       /\ gw'[c].invocations <= 2
       /\ (gw[c].pc = "attempt" /\ gw'[c].first = "auth")
          => /\ stripeInstances'[gw[c].selector] = 0
             /\ gw'[c].pc = "resolveFresh"
             /\ gw'[c].invocations = 1
       /\ (gw[c].pc = "resolveFresh" /\ gw[c].key = 0 /\ gw'[c].key # 0)
          => /\ keysResolved' = keysResolved + 1
             /\ gw'[c].key = keysResolved'
       /\ (gw[c].pc = "resolveFresh" /\ gw'[c].pc # "resolveFresh" /\ gw[c].key # 0)
          => /\ gw'[c].pc = "retry"
             /\ gw'[c].handle = gw[c].key
             /\ gw'[c].handle # gw[c].handle
       /\ (gw[c].pc = "retry" /\ gw'[c].pc # "retry")
          => /\ gw'[c].pc = "done"
             /\ gw'[c].invocations = 2
             /\ gw'[c].second # "ok" => gw'[c].outcome = "threw"
             /\ gw'[c].second = "ok" => gw'[c].outcome = "returned"
       /\ (gw'[c].pc = "done" /\ gw'[c].first = "auth" /\ gw'[c].second # "none")
          => gw'[c].invocations = 2]_vars

\* A call has failed with an authentication error, retried on a freshly
\* resolved handle and failed again, and another call's retry has succeeded.
C17_Witness ==
  \E c1, c2 \in Calls :
    /\ gw[c1].pc = "done" /\ gw[c1].first = "auth" /\ gw[c1].second = "auth"
    /\ gw[c1].invocations = 2 /\ gw[c1].outcome = "threw"
    /\ gw[c2].pc = "done" /\ gw[c2].first = "auth" /\ gw[c2].second = "ok"
    /\ gw[c2].outcome = "returned"

\* C18: the failure of a deduction's fire-and-forget provider record changes
\* neither the stored row nor the call's result or response; a failed record
\* stays failed (it is not issued again); and a call whose record has failed
\* before it answers still answers success=true with the debited balance,
\* which its commit stores.
C18_RecordFailureIsHarmless ==
  [][\A r \in Reqs :
       /\ (audit[r] = "pending" /\ audit'[r] = "failed")
          => /\ acct' = acct
             /\ resp' = resp
             /\ result'[r] = result[r]
             /\ txBalance'[r] = txBalance[r]
             /\ txAborted'[r] = txAborted[r]
             /\ stripeTxns' = stripeTxns
       /\ audit[r] = "failed" => audit'[r] = "failed"
       /\ (Completes(r) /\ audit[r] = "failed")
          => /\ resp'[r] = [status |-> 200, success |-> TRUE,
                            balance_cents |-> currentBalance[r] - amount_cents[r],
                            billing_mode |-> account[r].billingMode, depleted |-> FALSE]
             /\ acct'.creditBalanceCents = currentBalance[r] - amount_cents[r]]_vars

\* A deduction whose provider record failed has returned success, and its
\* debit is the stored balance.
C18_Witness ==
  \E r \in Reqs :
    /\ audit[r] = "failed"
    /\ Succeeded(r)
    /\ resp[r].balance_cents = account[r].creditBalanceCents - amount_cents[r]
    /\ acct.creditBalanceCents = resp[r].balance_cents
    /\ acct.creditBalanceCents < acct0.creditBalanceCents

\* C19: a deduct call in whose transaction a local-ledger write failed
\* answers with a server error, and the stored balance after it is the balance
\* before it.
C19_FailedWriteAbortsDeduct ==
  [][\A r \in Reqs :
       (Completes(r) /\ txAborted'[r])
       => /\ resp'[r].status = 500
          /\ acct'.creditBalanceCents = account[r].creditBalanceCents]_vars

\* C20: a checkout-completed event whose customer id locates the account
\* takes as reload amount the value in its metadata if present and the
\* account's stored reloadAmountCents otherwise; it records a provider credit
\* of minus that amount for the customer; and its update sets billingMode =
\* payg, creditBalanceCents = the balance it read plus the reload amount,
\* reloadAmountCents = the reload amount, and the payment method the event
\* carries.
C20_CheckoutCompleted ==
  [][/\ (hook.pc = "idle" /\ hook'.pc \in {"credit", "update"})
        => /\ acct.exists /\ acct.stripeCustomerId = hook'.customer
           /\ hook'.account = acct
           /\ hook'.reloadAmountCents = IF hook'.metadata # NULL THEN hook'.metadata
                                         ELSE acct.reloadAmountCents
           /\ hook'.reloadAmountCents # NULL <=> hook'.pc = "credit"
     /\ (hook.pc = "credit" /\ hook'.pc = "update")
        => stripeTxns' = stripeTxns (+) SetToBag({[customer |-> hook.customer,
                                                    amount |-> -hook.reloadAmountCents]})
     /\ (hook.pc = "update" /\ hook'.pc = "done")
        => /\ hook'.status = 200
           /\ acct'.billingMode = "payg"
           /\ acct'.creditBalanceCents
                = hook.account.creditBalanceCents
                  + (IF hook.reloadAmountCents = NULL THEN 0 ELSE hook.reloadAmountCents)
           /\ acct'.reloadAmountCents = hook.reloadAmountCents
           /\ hook.payment_method # NoId
                => acct'.stripePaymentMethodId = hook.payment_method
           /\ acct'.stripeCustomerId = hook.customer]_vars

\* With no deduction issued, a trial account without payment method has been
\* moved to payg by an event whose metadata amount differs from the stored
\* one: the balance has grown by the metadata amount, the payment method is
\* stored and the provider credit is recorded.
C20_Witness ==
  /\ Started = {}
  /\ hook.pc = "done" /\ hook.updated
  /\ acct0.exists /\ acct0.billingMode = "trial"
  /\ acct0.stripePaymentMethodId = NoId /\ acct0.reloadAmountCents \in ReloadAmounts
  /\ acct.billingMode = "payg"
  /\ acct.stripePaymentMethodId = "pm_1"
  /\ acct.reloadAmountCents \in ReloadAmounts \ {acct0.reloadAmountCents}
  /\ acct.creditBalanceCents = acct0.creditBalanceCents + acct.reloadAmountCents
  /\ BagIn([customer |-> acct.stripeCustomerId, amount |-> -acct.reloadAmountCents],
           stripeTxns)

\* ------------------------------------------------------------------- C21
\* The account the event's customer id locates in the initial table.
EventLocatesAccount ==
  event.fixed /\ TruthyId(event.customer) /\ acct0.exists
  /\ acct0.stripeCustomerId = event.customer

\* The amount one delivery of the event credits (0 when neither the event nor
\* the account names a reload amount).
EventReload ==
  LET reload == HookReloadAmount(event.metadata, acct0) IN
  IF reload = NULL THEN 0 ELSE reload

\* C21: the checkout-completed handler is not idempotent. Once every delivery of
\* the same event has been acknowledged, the stored balance is the initial
\* balance plus the reload amount once per delivery, and the provider's ledger
\* holds one credit of that amount per delivery: delivered twice, the event
\* credits twice.
C21_RedeliveryCreditsTwice ==
  (deliveries.started = deliveries.acked /\ EventLocatesAccount)
    => /\ acct.creditBalanceCents
            = acct0.creditBalanceCents + deliveries.acked * EventReload
       /\ EventReload > 0
            => CopiesIn([customer |-> event.customer, amount |-> -EventReload],
                        stripeTxns) = deliveries.acked

C21_Witness ==
  /\ deliveries.acked = 2
  /\ EventLocatesAccount
  /\ EventReload > 0
  /\ acct.creditBalanceCents = acct0.creditBalanceCents + 2 * EventReload
  /\ CopiesIn([customer |-> event.customer, amount |-> -EventReload], stripeTxns) = 2

\* ------------------------------------------------------------------- C22
\* A step of handlePaymentSucceeded: its entry from the route or its UPDATE.
PaymentStep ==
  /\ wh' # wh
  /\ \/ wh.pc = "update"
     \/ /\ wh.pc = "idle"
        /\ wh'.signature = "valid"
        /\ wh'.type = "payment_intent.succeeded"

\* The event names auto_reload and an account exists for its customer.
PaymentApplies(req) ==
  /\ req.metadata_type = "auto_reload"
  /\ TruthyId(req.customer)
  /\ acct.exists
  /\ acct.stripeCustomerId = req.customer

\* C22: the payment-succeeded webhook changes state only when the event's
\* metadata type is auto_reload and an account exists for its customer, and then
\* only the stored payment method id, which becomes the reported one when that
\* differs; it never changes creditBalanceCents, billingMode or
\* reloadAmountCents, and makes no provider call.
C22_PaymentSucceededFrame ==
  [][PaymentStep =>
       /\ acct' # acct =>
            /\ PaymentApplies(wh')
            /\ wh'.payment_method # acct.stripePaymentMethodId
            /\ acct' = [acct EXCEPT !.stripePaymentMethodId = wh'.payment_method]
       /\ acct'.creditBalanceCents = acct.creditBalanceCents
       /\ acct'.billingMode = acct.billingMode
       /\ acct'.reloadAmountCents = acct.reloadAmountCents
       /\ (wh.pc = "idle" /\ PaymentApplies(wh') /\ TruthyId(wh'.payment_method)
           /\ wh'.payment_method # acct.stripePaymentMethodId)
            => wh'.pc = "update"
       /\ (wh.pc = "update" /\ wh'.status = 200)
            => acct'.stripePaymentMethodId = wh.payment_method
       /\ UNCHANGED <<stripeVars, hook>>]_vars

C22_Witness ==
  /\ wh.pc = "done"
  /\ wh.status = 200
  /\ wh.type = "payment_intent.succeeded"
  /\ wh.metadata_type = "auto_reload"
  /\ acct0.stripePaymentMethodId = "pm_1"
  /\ wh.payment_method = "pm_2"
  /\ acct = [acct0 EXCEPT !.stripePaymentMethodId = "pm_2"]

\* ------------------------------------------------------------------- C23
\* C23: a verified event whose type is neither checkout-completed nor
\* payment-succeeded (payment-failed included) is acknowledged with success at
\* once and leaves every account, and the provider, unchanged.
C23_OtherEventsAcknowledged ==
  [][(/\ wh.pc = "idle"
      /\ wh' # wh
      /\ wh'.signature = "valid"
      /\ wh'.type \notin {"checkout.session.completed", "payment_intent.succeeded"})
       => /\ wh'.pc = "done"
          /\ wh'.status = 200
          /\ UNCHANGED <<acct, stripeVars, hook>>]_vars

C23_Witness ==
  /\ wh.pc = "done"
  /\ wh.status = 200
  /\ wh.signature = "valid"
  /\ wh.type = "payment_intent.payment_failed"
  /\ wh.metadata_type = "auto_reload"
  /\ acct.exists
  /\ acct.stripeCustomerId = wh.customer
  /\ wh.payment_method = "pm_2"
  /\ acct = acct0

\* ------------------------------------------------------------------- C24
\* C24: a webhook request whose signature header is missing or fails
\* verification is rejected with a client error before any handler runs: no
\* account is read or modified and no provider call is made.
C24_BadSignatureRejected ==
  [][(wh.pc = "idle" /\ wh' # wh /\ wh'.signature # "valid")
       => /\ wh'.pc = "done"
          /\ wh'.status = 400
          /\ UNCHANGED <<acct, stripeVars, hook, deliveries>>]_vars

C24_Witness ==
  /\ wh.pc = "done"
  /\ wh.status = 400
  /\ wh.signature = "invalid"
  /\ wh.type = "checkout.session.completed"
  /\ acct.exists
  /\ TruthyId(wh.customer)
  /\ acct.stripeCustomerId = wh.customer
  /\ hook = NoHook
  /\ acct = acct0

\* ------------------------------------------------------------------- C25
\* The balance call r compares with the amount after any reload attempt: the
\* balance it read, plus the reload amount when its synchronous reload was
\* credited to the row.
BalanceAfterReload(r) ==
  IF syncReload[r].update = "ok"
  THEN account[r].creditBalanceCents + account[r].reloadAmountCents
  ELSE account[r].creditBalanceCents

\* Call r answers 200 in this step for a row that exists and is metered.
MeteredAnswer(r) ==
  /\ Completes(r)
  /\ resp'[r].status = 200
  /\ account[r].exists
  /\ account[r].billingMode # "byok"

\* C25: the two depletion predicates differ. The balance endpoint reports
\* depleted exactly when creditBalanceCents <= 0; deduct reports depleted
\* exactly when the balance after any reload attempt is strictly less than the
\* amount. A deduct of exactly the balance succeeds and leaves 0.
C25_DepletionPredicates ==
  [][/\ (balReq.pc = "idle" /\ balReq'.pc = "done" /\ balReq'.status = 200)
          => /\ balReq'.balance_cents = acct.creditBalanceCents
             /\ balReq'.depleted <=> (acct.creditBalanceCents <= 0)
     /\ \A r \in Reqs :
          MeteredAnswer(r)
            => /\ resp'[r].depleted <=> (BalanceAfterReload(r) < amount_cents[r])
               /\ resp'[r].success <=> ~resp'[r].depleted
               /\ BalanceAfterReload(r) = amount_cents[r]
                    => resp'[r].balance_cents = 0]_vars

C25_Witness ==
  \E r \in Reqs :
    /\ Succeeded(r)
    /\ acct0.creditBalanceCents = amount_cents[r]
    /\ resp[r].balance_cents = 0
    /\ acct.creditBalanceCents = 0
    /\ balReq.pc = "done"
    /\ balReq.status = 200
    /\ balReq.balance_cents = 0
    /\ balReq.depleted

\* ------------------------------------------------------------------- C26
\* C26: a deduct call that finds no account for the organization answers 404
\* not-found; no row is created, no balance is written and no provider call is
\* made.
C26_DeductNotFound ==
  [][\A r \in Reqs :
       ( /\ Completes(r)
         /\ pc[r] = "commit"
         /\ ~account[r].exists )
       => /\ resp'[r] = ErrorResp(404)
          /\ txBalance[r] = NULL
          /\ txBalance'[r] = NULL
          /\ acct' = acct
          /\ ~acct'.exists
          /\ NoProviderCall(r)
          /\ UNCHANGED stripeVars]_vars

\* Both calls have been answered 404 and the table is still empty.
C26_Witness ==
  /\ ~acct0.exists
  /\ ~acct.exists
  /\ \A r \in Reqs : Done(r) /\ resp[r] = ErrorResp(404)
  /\ \E r \in Reqs : amount_cents[r] = MaxAmount

\* ------------------------------------------------------------------- C27
BalanceChanged == acct'.creditBalanceCents # acct.creditBalanceCents

\* A step of the operations that may write creditBalanceCents: the commit of a
\* deduction (its debit and synchronous reload), a background reload's
\* increment, the insertion of a new account, the checkout-completed UPDATE.
BalanceWriterStep ==
  \/ \E r \in Reqs : pc[r] = "commit" /\ pc'[r] = "done"
  \/ \E r \in Reqs : bg[r] # bg'[r]
  \/ ~acct.exists /\ acct'.exists
  \/ hook.pc = "update" /\ hook'.pc = "done"

\* A step, on an existing account, of the operations said to leave the balance
\* alone: mode update, checkout-session creation, payment-succeeded webhook, and
\* the account, balance and transactions reads.
BalanceReaderStep ==
  /\ acct.exists
  /\ \/ modeReq' # modeReq
     \/ coReq' # coReq
     \/ PaymentStep
     \/ getReq' # getReq
     \/ balReq' # balReq
     \/ txnReq' # txnReq

\* C27: creditBalanceCents is changed only by a deduction (debit, synchronous
\* reload, background reload), by account creation and by the
\* checkout-completed webhook; mode update, checkout-session creation, the
\* payment-succeeded webhook and the account, balance and transactions reads
\* leave it unchanged.
C27_BalanceWriters ==
  [][/\ BalanceChanged => BalanceWriterStep
     /\ BalanceReaderStep => ~BalanceChanged]_vars

\* A new account was created with the trial credit, a payment-succeeded event
\* then stored a payment method and a mode update switched it to payg: the
\* balance is still the trial credit.
C27_Witness ==
  /\ ~acct0.exists
  /\ getReq[1].pc = "done"
  /\ wh.pc = "done" /\ wh.status = 200 /\ wh.type = "payment_intent.succeeded"
  /\ modeReq[1].pc = "done" /\ modeReq[1].status = 200
  /\ acct.exists
  /\ acct.billingMode = "payg"
  /\ acct.stripePaymentMethodId = "pm_2"
  /\ acct.creditBalanceCents = TrialCreditCents

\* ------------------------------------------------------------------- C28
\* The transaction this step adds to the provider's ledger, if it adds one.
TxnAdded(t) == stripeTxns' = stripeTxns (+) SetToBag({t})

\* Call r's fire-and-forget record of its deduction is stored in this step.
RecordsDeduction(r, t) ==
  /\ audit[r] = "pending"
  /\ audit'[r] = "recorded"
  /\ result[r].success
  /\ t.amount = amount_cents[r]

\* This step stores a credit: the trial grant of a new account, or the reload
\* amount of a synchronous, background or checkout reload.
RecordsCredit(t) ==
  \/ \E g \in Gets : getReq[g].pc = "credit" /\ t.amount = -TrialGrantCents
  \/ \E r \in Reqs : /\ pc[r] = "syncCredit"
                       /\ syncReload'[r].credit = "ok"
                       /\ t.amount = -account[r].reloadAmountCents
  \/ \E r \in Reqs : /\ bg[r] = "credit"
                       /\ bg'[r] = "increment"
                       /\ t.amount = -account[r].reloadAmountCents
  \/ /\ hook.pc = "credit"
     /\ t.amount = -hook.reloadAmountCents

\* Call r has been answered without a debit: depleted, not found, byok or a
\* server error.
EndedWithoutDebit(r) ==
  Done(r) /\ (~resp[r].success \/ resp[r].billing_mode = "byok")

PastKeyCheck ==
  \/ http.pc \in {"route", "requireOrgHeaders", "handler"}
  \/ http.pc = "done" /\ http.status \in {400, 404} /\ http.route \notin PublicRoutes

\* C29: a request to a protected endpoint without the correct API key is
\* answered 401 before any header check or handler runs; with the key but
\* without the org or the app header it is answered 400; the key check precedes
\* route matching, so a request to an unknown route is answered 401 without the
\* key and 404 with it.
C29_KeyCheckFirst ==
  /\ PastKeyCheck => KeyAccepted(http.api_key)
  /\ (http.pc = "done" /\ http.route \notin PublicRoutes
       /\ http.api_key # "correct")
       => http.status = 401
  /\ (http.pc = "done" /\ http.route \in ProtectedRoutes
       /\ http.api_key = "correct")
       => (http.status = 400 /\ (~http.org_id \/ ~http.app_id))
  /\ (http.pc = "done" /\ http.route \notin ProtectedRoutes \cup PublicRoutes
       /\ http.api_key = "correct")
       => http.status = 404
  /\ http.pc = "handler"
       => /\ http.route \in ProtectedRoutes
          /\ http.api_key = "correct"
          /\ http.org_id
          /\ http.app_id

\* A request for an unknown route with a wrong key and no headers got 401.
C29_Witness ==
  /\ http.pc = "done"
  /\ http.status = 401
  /\ http.api_key = "wrong"
  /\ http.route \notin ProtectedRoutes \cup PublicRoutes
  /\ ~http.org_id

\* ------------------------------------------------------------------- C30
\* The amount the completed checkout credited: the reload amount it stored, or
\* nothing when neither the event nor the account named one.
CheckoutCredited ==
  IF acct.reloadAmountCents = NULL THEN 0 ELSE acct.reloadAmountCents

\* C30: a checkout-completed webhook running concurrently with a deduction
\* loses neither update: once the webhook has updated the account and the only
\* deduct call (one without any reload) has succeeded, the stored balance is the
\* initial balance plus the reload amount minus the deducted amount.
C30_WebhookAndDeductBothApplied ==
  \A r \in Reqs :
    ( /\ Started = {r}
      /\ Succeeded(r)
      /\ resp[r].billing_mode # "byok"
      /\ syncReload[r] = NoReload
      /\ bg[r] = "none"
      /\ hook.pc = "done"
      /\ hook.updated )
    => acct.creditBalanceCents
         = acct0.creditBalanceCents + CheckoutCredited - amount_cents[r]

\* ------------------------------------------------------------------- C31
\* Every deduct call issued has returned and no background reload is running.
DeductsQuiescent ==
  /\ \A r \in Started : Done(r)
  /\ \A r \in Reqs : bg[r] \in {"none", "done", "failed"}

\* The account's reload amount (deductions never change it).
StoredReload ==
  IF acct0.reloadAmountCents = NULL THEN 0 ELSE acct0.reloadAmountCents

\* C31: no charge without credit. Once the deduct calls and their background
\* reloads are over, the stored balance holds the reload amount for every
\* off-session charge that succeeded: it is the initial balance, minus the
\* amounts debited, plus the reload amount once per successful charge.
C31_NoChargeWithoutCredit ==
  DeductsQuiescent
    => acct.creditBalanceCents
         = acct0.creditBalanceCents - SumDebited(Started) + charges * StoredReload

\* ------------------------------------------------------------------- C32
\* C32: a single deduct call issues at most one off-session reload charge: a
\* call that performed a synchronous reload schedules no background reload.
C32_OneReloadPerCall ==
  \A r \in Reqs : syncReload[r].charge = "ok" => bg[r] = "none"

\* ------------------------------------------------------------------- C33
RECURSIVE SumChargeCalls(_)
SumChargeCalls(S) ==
  IF S = {} THEN 0
  ELSE LET r == CHOOSE x \in S : TRUE IN chargeCalls[r] + SumChargeCalls(S \ {r})

\* Concurrent deductions on a payg account with reload configured, each for
\* more than the initial balance, whose amounts together are covered by the
\* balance plus one reload; no provider call of a synchronous reload has failed.
SharedReloadCase ==
  /\ acct0.exists
  /\ ReloadConfigured(acct0)
  /\ Started = Reqs
  /\ \A r \in Reqs : amount_cents[r] > acct0.creditBalanceCents
  /\ SumAmounts(Reqs) <= acct0.creditBalanceCents + acct0.reloadAmountCents
  /\ \A r \in Reqs : syncReload[r].charge # "failed" /\ syncReload[r].credit # "failed"

\* C33: the row lock covers the synchronous reload. In that case only one
\* synchronous reload charge is issued; once the calls have returned, all have
\* succeeded, exactly one has reloaded, and every other one read, after waiting
\* for the lock, a balance that already held the reload and covered its amount,
\* and debited it without reloading.
C33_LockCoversSyncReload ==
  SharedReloadCase
    => /\ SumChargeCalls(Reqs) <= 1
       /\ (\A r \in Reqs : Done(r))
            => /\ \A r \in Reqs : Succeeded(r)
               /\ Cardinality({r \in Reqs : syncReload[r].update = "ok"}) = 1
               /\ \A r \in Reqs :
                    syncReload[r] = NoReload
                      => /\ account[r].creditBalanceCents >= amount_cents[r]
                         /\ account[r].creditBalanceCents
                              >= acct0.creditBalanceCents + acct0.reloadAmountCents
                                   - (SumAmounts(Reqs) - amount_cents[r])

\* Two deductions of 1 on a balance of 0 with a reload of 3 have both returned:
\* one reloaded, the other did not.
C33_Witness ==
  /\ SharedReloadCase
  /\ \A r \in Reqs : Succeeded(r)
  /\ SumChargeCalls(Reqs) = 1
  /\ \E r \in Reqs : syncReload[r] = NoReload /\ account[r].creditBalanceCents > 0

\* ------------------------------------------------------------------- C34
\* Call r's synchronous reload succeeded (charge, provider credit and the write
\* of the reloaded balance) and the reloaded balance is still below the amount.
StillInsufficientAfterReload(r) ==
  /\ SyncReloadCase(r)
  /\ syncReload[r] = [charge |-> "ok", credit |-> "ok", update |-> "ok"]
  /\ account[r].creditBalanceCents + account[r].reloadAmountCents < amount_cents[r]

\* C34: when a synchronous reload succeeds but balance + reloadAmountCents is
\* still below the amount, the call answers success=false, depleted=true with
\* balance_cents = balance + reloadAmountCents and the mode unchanged; no debit
\* occurs (no deduction record, no background reload), and the row stored by
\* the commit holds balance + reloadAmountCents in the same mode.
C34_ReloadStillInsufficient ==
  [][\A r \in Reqs :
       (Completes(r) /\ StillInsufficientAfterReload(r))
         => LET reloaded == account[r].creditBalanceCents
                              + account[r].reloadAmountCents IN
            /\ resp'[r] = [status |-> 200, success |-> FALSE,
                           balance_cents |-> reloaded,
                           billing_mode |-> account[r].billingMode,
                           depleted |-> TRUE]
            /\ acct'.creditBalanceCents = reloaded
            /\ acct'.billingMode = account[r].billingMode
            /\ acct' = [acct EXCEPT !.creditBalanceCents = reloaded]
            /\ audit'[r] = "none"
            /\ bg'[r] = "none"]_vars

C34_Witness ==
  \E r \in Reqs :
    /\ Done(r)
    /\ StillInsufficientAfterReload(r)
    /\ resp[r].depleted
    /\ acct0.creditBalanceCents + acct0.reloadAmountCents < amount_cents[r]
    /\ acct.creditBalanceCents = acct0.creditBalanceCents + acct0.reloadAmountCents

\* ------------------------------------------------------------------- C35
\* The provider credit of call r's background reload is in the ledger.
BackgroundCreditRecorded(r) ==
  CopiesIn([customer |-> account[r].stripeCustomerId,
            amount |-> -account[r].reloadAmountCents], stripeTxns) >= 1

\* C35: a background reload increments the stored balance only after both its
\* charge and its provider credit succeeded, and then by the reload amount. If
\* either fails the failure is swallowed: the stored balance is not
\* incremented, the reload stays failed (no retry, no further charge), and the
\* response of the deduction that scheduled it is the success it had computed.
C35_BackgroundReloadFailureSwallowed ==
  /\ [](\A r \in Reqs :
          bg[r] \in {"increment", "done"}
            => charges >= 1 /\ BackgroundCreditRecorded(r))
  /\ [][\A r \in Reqs :
          /\ (bg[r] # "none" /\ bg'[r] # bg[r])
               => /\ acct' # acct
                       => /\ bg[r] = "increment"
                          /\ bg'[r] = "done"
                          /\ acct' = [acct EXCEPT !.creditBalanceCents =
                                        @ + account[r].reloadAmountCents]
                  /\ bg'[r] = "failed"
                       => /\ acct' = acct
                          /\ charges' = charges
                          /\ stripeTxns' = stripeTxns
                  /\ resp' = resp
                  /\ pc' = pc
                  /\ result' = result
          /\ bg[r] = "failed" => bg'[r] = "failed"
          /\ (Completes(r) /\ bg[r] = "failed")
               => /\ resp'[r] = result[r]
                  /\ resp'[r].status = 200
                  /\ resp'[r].success]_vars

\* A background reload failed before its deduction answered; the deduction
\* answered success and the stored balance is the debited one.
C35_Witness ==
  \E r \in Reqs :
    /\ bg[r] = "failed"
    /\ Succeeded(r)
    /\ Started = {r}
    /\ syncReload[r] = NoReload
    /\ charges = 1
    /\ acct.creditBalanceCents = acct0.creditBalanceCents - amount_cents[r]

\* Every checkout-session request has answered or has not arrived.
CheckoutsCompleted == \A c \in Checkouts : coReq[c].pc \in {"idle", "done"}

\* C36: once the concurrent checkout-session creations have completed, every
\* checkout session created is for the provider customer id the account
\* stores, so the checkout-completed event of any of them locates the account.
C36_SessionsForStoredCustomer ==
  CheckoutsCompleted
    => \A s \in sessions : /\ acct.exists
                            /\ s.customer = acct.stripeCustomerId

\* Only account requests have run, and each of them has answered 200.
OnlyAccountRequestsRan ==
  /\ \A c \in Checkouts : coReq[c].pc = "idle"
  /\ \A g \in Gets : getReq[g].pc \in {"idle", "done"}
  /\ \A g \in Gets : getReq[g].pc = "done" => getReq[g].status = 200
  /\ \E g \in Gets : getReq[g].pc = "done"

\* C37: once the concurrent first accesses to a missing account have answered,
\* the account is in trial mode with 200 cents, exactly one provider customer
\* was created and exactly one trial credit of -200 was recorded, for that
\* customer; accesses to an existing account create no provider customer.
C37_OneCustomerOneTrialCredit ==
  OnlyAccountRequestsRan
    => IF acct0.exists
       THEN customers = {} /\ stripeTxns = EmptyBag
       ELSE /\ acct.exists
            /\ acct.billingMode = "trial"
            /\ acct.creditBalanceCents = TrialCreditCents
            /\ customers = {acct.stripeCustomerId}
            /\ stripeTxns = SetToBag({[customer |-> acct.stripeCustomerId,
                                       amount |-> -TrialGrantCents]})

\* C38: whatever other gateway calls for the selector do meanwhile, the retry
\* after an authentication failure runs on the handle the call built itself,
\* from a credential the key service handed out after the call's eviction:
\* never on a handle from a credential handed out before it, which another
\* call in flight may have stored in the cache since.
C38_RetryOnFreshHandle ==
  /\ [](\A c \in Calls :
          (gw[c].pc = "retry" \/ gw[c].second # "none")
          => gw[c].handle > gw[c].evictedAt)
  /\ [][\A c \in Calls :
          /\ (gw[c].pc = "resolveFresh" /\ gw'[c].pc = "retry")
             => /\ gw[c].key > gw[c].evictedAt
                /\ gw'[c].handle = gw[c].key
          /\ (gw[c].pc = "retry" /\ gw'[c].pc = "done")
             => /\ gw'[c].handle = gw[c].handle
                /\ gw'[c].invocations = 2]_vars

\* A call evicted the selector's entry and retried on a handle of its own, from
\* a credential handed out after the eviction, while another call in flight
\* stored in the cache a handle from a credential handed out before it.
C38_Witness ==
  \E c1, c2 \in Calls :
    /\ c1 # c2
    /\ gw[c1].selector = gw[c2].selector
    /\ gw[c1].pc = "done" /\ gw[c1].second = "ok"
    /\ gw[c1].handle > gw[c1].evictedAt
    /\ gw[c2].pc = "attempt" /\ gw[c2].first = "none"
    /\ gw[c2].handle # 0
    /\ gw[c2].handle <= gw[c1].evictedAt
    /\ stripeInstances[gw[c1].selector] = gw[c2].handle

\* C39: an invocation that fails with an error other than an authentication
\* error ends the call in that step, after that one invocation: the error
\* propagates, the selector's cache entry is left as it is, no credential is
\* asked for, and the call takes no step afterwards.
C39_OtherErrorPropagates ==
  [][\A c \in Calls :
       /\ (gw[c].pc = "attempt" /\ gw'[c].first = "other")
          => /\ gw'[c].pc = "done"
             /\ gw'[c].outcome = "threw"
             /\ gw'[c].invocations = 1
             /\ gw'[c].second = "none"
             /\ stripeInstances' = stripeInstances
             /\ keysResolved' = keysResolved
       /\ gw[c].pc = "done" => gw'[c] = gw[c]]_vars

\* A call failed with another error on its one invocation, and a later call
\* for the selector found the handle still cached: one credential was resolved
\* in all.
C39_Witness ==
  \E c1, c2 \in Calls :
    /\ c1 # c2
    /\ gw[c1].pc = "done" /\ gw[c1].first = "other"
    /\ gw[c1].invocations = 1 /\ gw[c1].outcome = "threw"
    /\ gw[c2].selector = gw[c1].selector
    /\ gw[c2].pc = "attempt"
    /\ gw[c2].handle = gw[c1].handle
    /\ stripeInstances[gw[c1].selector] = gw[c1].handle
    /\ keysResolved = 1

\* C40: every deduct call that has arrived eventually answers, holding the row
\* lock no longer, whichever branch it takes; and a call waiting for the row
\* lock another call holds is eventually served.
C40_DeductEventuallyReturns ==
  /\ \A r \in Reqs :
       (pc[r] # "idle") ~> (Done(r) /\ resp[r] # NoResp /\ lock # r)
  /\ \A r \in Reqs :
       (pc[r] = "select" /\ ~RowLockFree) ~> (pc[r] \notin {"idle", "select"})

\* Two calls on one existing account have both answered, one of them after a
\* synchronous reload and the other with a server error, and the row lock is
\* free.
C40_Witness ==
  \E r1, r2 \in Reqs :
    /\ r1 # r2
    /\ acct0.exists
    /\ Done(r1) /\ Done(r2)
    /\ syncReload[r1] # NoReload
    /\ resp[r1].status = 200
    /\ resp[r2].status = 500
    /\ RowLockFree

====
